---- MODULE Spec2Model ----
(***************************************************************************)
(* Dynamic context pruning plugin: the preemptive compaction controller,   *)
(* the prune rewrite of the message list, the Bedrock format descriptor    *)
(* driven by handleFormat, and the chat message transform pipeline.        *)
(*                                                                         *)
(* Each subsystem has its own specification over its own variables; the    *)
(* variables of the other subsystems keep their initial values.            *)
(***************************************************************************)
EXTENDS Integers, Sequences, FiniteSets, TLC

VARIABLES
    \* ---- preemptive compaction controller (unnamed/part_007) ----
    compactionInProgress,   \* state.compactionInProgress: Set<sessionID>
    lastCompactionTime,     \* state.lastCompactionTime: Map<sessionID, ms> (a function on its keys)
    now,                    \* Date.now()
    runs,                   \* activations of checkAndTriggerCompaction that passed the trigger
    storage,                \* on-disk message/part files per session
    cfg,                    \* config.preemptiveCompaction.truncation + environment
    dispatcherErrors,       \* rejections of the event handler's promise
    lastAct,                \* kind of the step taken last
    \* ---- prune rewrite of the message list (unnamed/part_002) ----
    pmsgs,                  \* output.messages: WithParts[]
    pmsgs0,                 \* the message list as it was handed in
    pruneToolIds,           \* state.prune.toolIds
    pcount,                 \* calls of prune on pmsgs so far
    pfirst,                 \* the message list after the first call
    \* ---- Bedrock format descriptor under handleFormat (unnamed/part_006) ----
    bdata,                  \* body.messages
    bdata0,                 \* body.messages as it was handed in
    bstate,                 \* ctx.state / ctx.config: toolParameters, prunedIds, protectedTools, onTool
    bphase,                 \* "input", "handled" (handleFormat returned), "replaced"
    bcount,                 \* direct replaceToolOutput calls so far
    bid,                    \* the tool id of those calls
    bfirst,                 \* body.messages after the first of them
    breplaced,              \* what the last of them returned
    \* ---- chat.messages.transform handler (lib/hooks.ts, lib/config.ts) ----
    tinv,                   \* invocations of the handler: position and the calls made, in order
    isSubAgent,             \* state.isSubAgent
    tconf,                  \* handler version, config.strategies, state.provider.effectiveConfig
    \* ---- auto-prune strategy and prunable-tools list (lib/strategies/auto-prune.ts,
    \*      lib/messages/inject.ts) ----
    apParams,               \* state.toolParameters of the session, in insertion order
    pins,                   \* state.pins: toolCallId -> expiresAtTurn (a function on its keys)
    currentTurn,            \* state.currentTurn
    lastAutoPruneTurn,      \* state.lastAutoPruneTurn
    apPruneIds,             \* state.prune.toolIds of the session
    apToolIdList,           \* buildToolIdList(state, messages): tool call ids of the messages
    apConfig,               \* config.tools.pinningMode, protectedTools, protectedFilePatterns
    apRuns,                 \* calls of autoPrune: turn, ids marked, position
    prunableList,           \* lines of the last list built by buildPrunableToolsList
    apWarned,               \* turns in which a list went out with the auto-prune warning
    apWarning,              \* the last list built went out with the auto-prune warning
    apAct,                  \* kind of the step taken last in this part
    \* ---- tool parameter cache (unnamed/part_007, unnamed/part_004) ----
    kcache,                 \* state.toolParameters: entries in insertion order
    kversion,               \* which copy of the caching functions is loaded
    kcalls,                 \* caching calls so far
    klast,                  \* the last caching call: cache before, calls tried, cachedIds, thrown
    \* ---- truncation of stored tool outputs (lib/preemptive/storage.ts) ----
    truncStore,             \* message and part files of the session
    truncArgs,              \* maxTokens, targetRatio, charsPerToken, protectedMessageCount
    truncLast,              \* the last call: files before, currentTokens, TruncationResult
    truncCalls,             \* calls of truncateUntilTargetTokens so far
    \* ---- experimental.chat.system.transform hook (index.ts, lib/prompts/index.ts) ----
    sysOutput,              \* output.system: string[]
    sysConfig,              \* config.tools: discard, extract, pin, pinningMode (enabled flags)
    sysCalls,               \* calls of the hook so far
    sysLast,                \* the last call: output.system before, outcome, prompt name
    \* ---- insertPruneToolContext (lib/messages/inject.ts) ----
    injMessages,            \* messages: WithParts[] (role, provider, what made the message)
    injConfig,              \* config.tools: pin, discard, extract (enabled flags)
    injLastToolPrune,       \* state.lastToolPrune
    injCalls,               \* calls of insertPruneToolContext so far
    injLast,                \* the last call: messages before
    \* ---- inferContextLimit (lib/preemptive/model-limits.ts) ----
    limExt,                 \* ANTHROPIC_1M_CONTEXT or VERTEX_ANTHROPIC_1M_CONTEXT is "true"
    limCalls,               \* calls of inferContextLimit: model id and the limit returned
    \* ---- prune confirmation UI (lib/ui/dcp-status.js, unnamed/part_001) ----
    pendingPrune,           \* the request whose {resolve, items} is pending; 0 for null
    autoConfirmEnabled,     \* autoConfirmEnabled
    uiReqs,                 \* calls of requestPruneConfirmation: promise, items, prompt
    \* ---- provider overrides: chat.params, transform and idle handlers (lib/hooks.ts,
    \*      lib/config.ts) ----
    provConfig,             \* config.strategies (enabled flags) and config.overrides.provider
    provider,               \* state.provider: providerID, effectiveConfig, lastNotifiedProvider
    paramsCalls,            \* calls of the chat.params handler: providerID, toast shown
    provLast,               \* the handler that ran last and what it called
    \* ---- tool registration (index.ts) ----
    regConfig,              \* config.tools: pinningMode, discard, extract, pin (enabled flags)
    regTools,               \* the keys of the plugin's tool map; {"none"} before the plugin is built
    primaryTools,           \* opencodeConfig.experimental.primary_tools
    regCalls                \* calls of the config hook

cvars == <<compactionInProgress, lastCompactionTime, now, runs, storage, cfg,
           dispatcherErrors, lastAct>>

pvars == <<pmsgs, pmsgs0, pruneToolIds, pcount, pfirst>>

bvars == <<bdata, bdata0, bstate, bphase, bcount, bid, bfirst, breplaced>>

tvars == <<tinv, isSubAgent, tconf>>

avars == <<apParams, pins, currentTurn, lastAutoPruneTurn, apPruneIds, apToolIdList, apConfig, apRuns, prunableList, apWarned, apWarning, apAct>>

kvars == <<kcache, kversion, kcalls, klast>>

xvars == <<truncStore, truncArgs, truncLast, truncCalls>>

svars == <<sysOutput, sysConfig, sysCalls, sysLast>>

\* the parts above, and the hooks and tools modelled after them
corevars == <<cvars, pvars, bvars, tvars, avars, kvars, xvars>>

ivars == <<injMessages, injConfig, injLastToolPrune, injCalls, injLast>>

lvars == <<limExt, limCalls>>

uvars == <<pendingPrune, autoConfirmEnabled, uiReqs>>

nvars == <<provConfig, provider, paramsCalls, provLast>>

gvars == <<regConfig, regTools, primaryTools, regCalls>>

hvars == <<svars, ivars, lvars, uvars, nvars, gvars>>

vars == <<cvars, pvars, bvars, tvars, avars, kvars, xvars, hvars>>

-----------------------------------------------------------------------------
(* Generic helpers                                                          *)

Range(s) == {s[i] : i \in DOMAIN s}

RECURSIVE SumSeq(_)
SumSeq(s) == IF s = <<>> THEN 0 ELSE Head(s) + SumSeq(Tail(s))

Min(a, b) == IF a < b THEN a ELSE b

-----------------------------------------------------------------------------
(* Constants of the preemptive compaction feature                           *)

\* DEFAULT_THRESHOLD = 0.85, kept as a percentage
DEFAULT_THRESHOLD_PCT == 85
DEFAULT_COOLDOWN_MS == 60000
MIN_TOKENS_FOR_COMPACTION == 50000
CHARS_PER_TOKEN == 4
DEFAULT_CONTEXT_LIMIT == 200000
\* TRUNCATION_MESSAGE.length
TRUNCATION_MESSAGE_LEN == 149

\* preemptiveConfig.threshold / cooldownMs / minTokens as read at handler creation
threshold == DEFAULT_THRESHOLD_PCT
cooldownMs == DEFAULT_COOLDOWN_MS
minTokens == MIN_TOKENS_FOR_COMPACTION

-----------------------------------------------------------------------------
(* Bounds                                                                   *)

MaxRuns == 2          \* triggered runs per behaviour
MaxTicks == 2         \* clock advances per behaviour
TickMs == 30000       \* one clock advance
StartTime == 100000   \* Date.now() at plugin start (any value >= cooldownMs)

Sessions == {"s1", "s2"}

-----------------------------------------------------------------------------
(* inferContextLimit: the regular expressions evaluated on a fixed set of   *)
(* model ids.                                                               *)

ModelIDs == {"claude-sonnet-4", "Claude-Opus-4", "claude-3-5-sonnet",
             "gpt-5", "gpt-4o", "gpt-4-turbo", "gpt-4",
             "o1-mini", "gemini-3-pro", "gemini-2.5-pro", "gemini-1.5-flash",
             "my-model", ""}

\* /claude-(opus|sonnet|haiku)/i.test(modelID)
IsClaude(modelID) == modelID \in {"claude-sonnet-4", "Claude-Opus-4"}

\* MODEL_CONTEXT_PATTERNS, in order; `ids` are the model ids the pattern matches
MODEL_CONTEXT_PATTERNS == <<
    [ids |-> {"claude-sonnet-4", "Claude-Opus-4"}, limit |-> 200000],
    [ids |-> {"gpt-5"},                            limit |-> 1000000],
    [ids |-> {"gpt-4-turbo", "gpt-4o"},            limit |-> 128000],
    [ids |-> {"gpt-4-turbo", "gpt-4"},             limit |-> 8192],
    [ids |-> {"o1-mini"},                          limit |-> 200000],
    [ids |-> {"gemini-3-pro"},                     limit |-> 2000000],
    [ids |-> {"gemini-2.5-pro"},                   limit |-> 2000000],
    [ids |-> {"gemini-3-pro", "gemini-2.5-pro", "gemini-1.5-flash"},
                                                   limit |-> 1000000] >>

\* EXTENDED_CONTEXT_LIMIT, from the ANTHROPIC_1M_CONTEXT environment variables
EXTENDED_CONTEXT_LIMIT(ext1M) == IF ext1M THEN 1000000 ELSE DEFAULT_CONTEXT_LIMIT

\* mutant: the last matching entry of the table decides
FirstMatch_Last(modelID, i) ==
    LET hits == {j \in DOMAIN MODEL_CONTEXT_PATTERNS : modelID \in MODEL_CONTEXT_PATTERNS[j].ids}
    IN  IF hits = {} THEN DEFAULT_CONTEXT_LIMIT
        ELSE MODEL_CONTEXT_PATTERNS[CHOOSE j \in hits : \A k \in hits : k <= j].limit

RECURSIVE FirstMatch(_, _)
FirstMatch(modelID, i) ==
    IF i > Len(MODEL_CONTEXT_PATTERNS) THEN DEFAULT_CONTEXT_LIMIT
    ELSE IF modelID \in MODEL_CONTEXT_PATTERNS[i].ids THEN MODEL_CONTEXT_PATTERNS[i].limit
    ELSE FirstMatch(modelID, i + 1)

inferContextLimit(modelID, ext1M) ==
    IF IsClaude(modelID) THEN EXTENDED_CONTEXT_LIMIT(ext1M)
    ELSE FirstMatch(modelID, 1)

-----------------------------------------------------------------------------
(* storage.ts: tool outputs on disk.  storage[s] is the list of message     *)
(* files of session s in directory order; a message is                      *)
(* [mtime, parts], a part is [outputSize, truncated, writable] where        *)
(* outputSize = part.state.output.length (0: no output) and writable tells  *)
(* whether writeFileSync on the part file succeeds.                         *)

\* Array.prototype.sort with comparator (a, b) => b.k - a.k (stable)
RECURSIVE InsertDesc(_, _)
InsertDesc(sorted, x) ==
    IF sorted = <<>> THEN <<x>>
    ELSE IF Head(sorted).k >= x.k THEN <<Head(sorted)>> \o InsertDesc(Tail(sorted), x)
    ELSE <<x>> \o sorted

RECURSIVE SortDesc(_)
SortDesc(s) ==
    IF s = <<>> THEN <<>>
    ELSE InsertDesc(SortDesc(SubSeq(s, 1, Len(s) - 1)), s[Len(s)])

\* mutant: the oldest messages are taken instead of the newest
ProtectedMessageIds_Oldest(msgs, protectedMessageCount) ==
    IF protectedMessageCount > 0 /\ Len(msgs) > 0
    THEN LET messageTimestamps == SortDesc([i \in 1..Len(msgs) |-> [id |-> i, k |-> msgs[i].mtime]])
         IN  {messageTimestamps[Len(messageTimestamps) + 1 - i].id :
                 i \in 1..Min(protectedMessageCount, Len(messageTimestamps))}
    ELSE {}

\* the protectedMessageIds set of findToolResultsBySize (message indices)
ProtectedMessageIds(msgs, protectedMessageCount) ==
    IF protectedMessageCount > 0 /\ Len(msgs) > 0
    THEN LET messageTimestamps == SortDesc([i \in 1..Len(msgs) |-> [id |-> i, k |-> msgs[i].mtime]])
         IN  {messageTimestamps[i].id : i \in 1..Min(protectedMessageCount, Len(messageTimestamps))}
    ELSE {}

\* tool parts of one message that are candidates, in directory order
RECURSIVE PartResults(_, _, _)
PartResults(msgs, m, p) ==
    IF p > Len(msgs[m].parts) THEN <<>>
    ELSE LET part == msgs[m].parts[p]
         IN  (IF part.outputSize > 0 /\ ~part.truncated
              THEN <<[messageID |-> m, part |-> p, k |-> part.outputSize]>>
              ELSE <<>>) \o PartResults(msgs, m, p + 1)

RECURSIVE MessageResults(_, _, _)
MessageResults(msgs, prot, m) ==
    IF m > Len(msgs) THEN <<>>
    ELSE (IF m \in prot THEN <<>> ELSE PartResults(msgs, m, 1))
         \o MessageResults(msgs, prot, m + 1)

\* mutant: the results are returned in directory order, unsorted
findToolResultsBySize_Unsorted(msgs, protectedMessageCount) ==
    MessageResults(msgs, ProtectedMessageIds(msgs, protectedMessageCount), 1)

findToolResultsBySize(msgs, protectedMessageCount) ==
    SortDesc(MessageResults(msgs, ProtectedMessageIds(msgs, protectedMessageCount), 1))

\* truncateToolResult(partPath): [success, originalSize, msgs]
truncateToolResult(msgs, m, p) ==
    LET part == msgs[m].parts[p]
    IN  IF part.outputSize = 0 \/ ~part.writable
        THEN [success |-> FALSE, originalSize |-> 0, msgs |-> msgs]
        ELSE [success |-> TRUE, originalSize |-> part.outputSize,
              msgs |-> [msgs EXCEPT ![m].parts[p] =
                           [@ EXCEPT !.truncated = TRUE,
                                     !.outputSize = TRUNCATION_MESSAGE_LEN]]]

\* the for loop of truncateUntilTargetTokens from index i on
RECURSIVE TruncateLoop(_, _, _, _, _, _)
TruncateLoop(results, i, msgs, totalRemoved, truncatedCount, charsToReduce) ==
    IF i > Len(results)
    THEN [msgs |-> msgs, totalRemoved |-> totalRemoved, truncatedCount |-> truncatedCount]
    ELSE LET r == truncateToolResult(msgs, results[i].messageID, results[i].part)
         IN  IF r.success
             THEN IF totalRemoved + r.originalSize >= charsToReduce
                  THEN [msgs |-> r.msgs, totalRemoved |-> totalRemoved + r.originalSize,
                        truncatedCount |-> truncatedCount + 1]
                  ELSE TruncateLoop(results, i + 1, r.msgs, totalRemoved + r.originalSize,
                                    truncatedCount + 1, charsToReduce)
             ELSE TruncateLoop(results, i + 1, msgs, totalRemoved, truncatedCount, charsToReduce)

\* Math.floor(maxTokens * targetRatio), targetRatio given as a percentage
TargetTokens(maxTokens, targetRatioPct) == (maxTokens * targetRatioPct) \div 100

truncateUntilTargetTokens(msgs, currentTokens, maxTokens, targetRatioPct, charsPerToken, protectedMessageCount) ==
    LET targetTokens == TargetTokens(maxTokens, targetRatioPct)
        tokensToReduce == currentTokens - targetTokens
        charsToReduce == tokensToReduce * charsPerToken
        results == findToolResultsBySize(msgs, protectedMessageCount)
        loop == TruncateLoop(results, 1, msgs, 0, 0, charsToReduce)
    IN  IF tokensToReduce <= 0
        THEN [success |-> TRUE, sufficient |-> TRUE, truncatedCount |-> 0,
              totalBytesRemoved |-> 0, targetBytesToRemove |-> 0, msgs |-> msgs]
        ELSE IF Len(results) = 0
        THEN [success |-> FALSE, sufficient |-> FALSE, truncatedCount |-> 0,
              totalBytesRemoved |-> 0, targetBytesToRemove |-> charsToReduce, msgs |-> msgs]
        ELSE [success |-> loop.truncatedCount > 0,
              sufficient |-> loop.totalRemoved >= charsToReduce,
              truncatedCount |-> loop.truncatedCount,
              totalBytesRemoved |-> loop.totalRemoved,
              targetBytesToRemove |-> charsToReduce, msgs |-> loop.msgs]

-----------------------------------------------------------------------------
(* Inputs of the compaction controller                                      *)

Tok(i, o, cr, cw) ==
    [present |-> TRUE, input |-> i, output |-> o, cacheRead |-> cr, cacheWrite |-> cw]

\* lastAssistant.tokens === undefined
NoTokens == [present |-> FALSE, input |-> 0, output |-> 0, cacheRead |-> 0, cacheWrite |-> 0]

\* totals 40000 (below minTokens), 170000 (ratio 0.85 of 200000), 180000 (0.90)
TokenChoices == { Tok(30000, 5000, 5000, 90000), Tok(150000, 10000, 10000, 0),
                  Tok(150000, 10000, 20000, 5000) }

EventModelIDs == {"claude-sonnet-4", "gpt-4", ""}

AllInfos ==
    [present : {TRUE}, role : {"assistant", "user"}, finish : BOOLEAN, summary : BOOLEAN,
     sessionID : Sessions \cup {""}, tokens : TokenChoices \cup {NoTokens},
     modelID : EventModelIDs, providerID : {"anthropic", ""}]

B2N(b) == IF b THEN 1 ELSE 0

\* number of fields in which a payload differs from a finished assistant
\* message of a Claude model at 180000 tokens
Deviations(i) ==
    B2N(i.role # "assistant") + B2N(~i.finish) + B2N(i.summary) + B2N(i.sessionID = "")
    + B2N(i.tokens # Tok(150000, 10000, 20000, 5000)) + B2N(i.modelID # "claude-sonnet-4")
    + B2N(i.providerID = "")

\* message.updated payloads: at most one field off, and a small conversation
\* on a model with a small context limit
EventInfos ==
    { i \in AllInfos :
        \/ Deviations(i) = 0
        \/ Deviations(i) = 1 /\ i.modelID # "gpt-4"
        \/ /\ Deviations(i) = 2
           /\ i.modelID = "gpt-4"
           /\ i.tokens # NoTokens
           /\ i.tokens # Tok(150000, 10000, 10000, 0) }

\* props.info === undefined
NoInfo == [present |-> FALSE]

Part(size, w) == [outputSize |-> size, truncated |-> FALSE, writable |-> w]

\* message/part files a session may have on disk when the plugin starts
StorageLayouts == {
    <<>>,
    << [mtime |-> 1, parts |-> <<Part(80000, TRUE)>>],
       [mtime |-> 2, parts |-> <<Part(24000, TRUE), Part(0, TRUE)>>],
       [mtime |-> 3, parts |-> <<Part(90000, TRUE)>>] >>,
    << [mtime |-> 1, parts |-> <<Part(24000, TRUE), Part(50000, FALSE)>>],
       [mtime |-> 2, parts |-> <<Part(80000, TRUE)>>] >> }

-----------------------------------------------------------------------------
(* createPreemptiveCompactionHandler                                        *)

\* createState()
createState == [lastCompactionTime |-> <<>>, compactionInProgress |-> {}]

\* tokens.input + tokens.cache.read + tokens.output
TotalUsed(tokens) == tokens.input + tokens.cacheRead + tokens.output

\* usageRatio < threshold, with usageRatio = tokensUsed / contextLimit.  The
\* quotient of two integers below 2^31 and the literal 0.85 differ by far more
\* than one ulp unless they are equal, so the comparison is exact.
UnderThreshold(tokensUsed, contextLimit) == tokensUsed * 100 < threshold * contextLimit

\* state.lastCompactionTime.get(sessionID) ?? 0
LastCompaction(sessionID) ==
    IF sessionID \in DOMAIN lastCompactionTime THEN lastCompactionTime[sessionID] ELSE 0

\* mutant: the cooldown check dropped
OnCooldown_Never(sessionID) == FALSE

\* Date.now() - lastCompaction < cooldownMs
OnCooldown(sessionID) == now - LastCompaction(sessionID) < cooldownMs

\* state.compactionInProgress.has(sessionID)
AlreadyCompacting(sessionID) == sessionID \in compactionInProgress

\* mutant: the minimum-token floor dropped
BelowMinTokens_Never(totalUsed) == FALSE

\* totalUsed < minTokens
BelowMinTokens(totalUsed) == totalUsed < minTokens

ContextLimitOf(info) == inferContextLimit(info.modelID, cfg.ext1M)

\* the early returns of checkAndTriggerCompaction all passed
ShouldTrigger(sessionID, lastAssistant) ==
    /\ ~AlreadyCompacting(sessionID)
    /\ ~OnCooldown(sessionID)
    /\ ~lastAssistant.summary
    /\ lastAssistant.tokens.present
    /\ ~BelowMinTokens(TotalUsed(lastAssistant.tokens))
    /\ ~UnderThreshold(TotalUsed(lastAssistant.tokens), ContextLimitOf(lastAssistant))

\* Map.prototype.set / delete, Set.prototype.delete
MapSet(m, k, v) == [x \in DOMAIN m \cup {k} |-> IF x = k THEN v ELSE m[x]]

\* mutant: the whole map is cleared
MapDelete_Clear(m, k) == <<>>

MapDelete(m, k) == [x \in DOMAIN m \ {k} |-> m[x]]

\* mutant: the guard is not cleared
ClearInProgress_Noop(inProgress, sessionID) == inProgress

\* state.compactionInProgress.delete(sessionID) (finally block and exits)
ClearInProgress(inProgress, sessionID) == inProgress \ {sessionID}

NewRun(info, pc, outcome) ==
    [info |-> info, pc |-> pc, outcome |-> outcome, tokensSaved |-> 0,
     summarizeCalled |-> FALSE, strategyPasses |-> 0, triggeredAt |-> now,
     deletedAfter |-> FALSE, sufficient |-> FALSE, totalBytesRemoved |-> 0]

\* checkAndTriggerCompaction up to its first await
checkAndTriggerCompaction(sessionID, lastAssistant) ==
    IF ShouldTrigger(sessionID, lastAssistant)
    THEN /\ lastCompactionTime' = MapSet(lastCompactionTime, sessionID, now)
         /\ IF lastAssistant.providerID = "" \/ lastAssistant.modelID = ""
            THEN /\ compactionInProgress' =
                        ClearInProgress(compactionInProgress \cup {sessionID}, sessionID)
                 /\ runs' = Append(runs, NewRun(lastAssistant, "done", "invalid"))
            ELSE /\ compactionInProgress' = compactionInProgress \cup {sessionID}
                 /\ runs' = Append(runs, NewRun(lastAssistant, "toastStart", ""))
    ELSE UNCHANGED <<compactionInProgress, lastCompactionTime, runs>>

\* event.type === "message.updated"
MessageUpdated(info) ==
    /\ Len(runs) < MaxRuns
    /\ lastAct' = "message.updated"
    /\ UNCHANGED <<pvars, bvars, tvars, avars, kvars, xvars, hvars>>
    /\ IF info.present /\ info.role = "assistant" /\ info.finish /\ info.sessionID # ""
       THEN checkAndTriggerCompaction(info.sessionID, info)
       ELSE UNCHANGED <<compactionInProgress, lastCompactionTime, runs>>
    /\ UNCHANGED <<now, storage, cfg, dispatcherErrors>>

\* event.type === "session.deleted"
SessionDeleted(id) ==
    /\ lastAct' = "other"
    /\ UNCHANGED <<pvars, bvars, tvars, avars, kvars, xvars, hvars>>
    /\ IF id # ""
       THEN /\ lastCompactionTime' = MapDelete(lastCompactionTime, id)
            /\ compactionInProgress' = compactionInProgress \ {id}
            /\ runs' = [i \in DOMAIN runs |->
                          IF runs[i].info.sessionID = id
                          THEN [runs[i] EXCEPT !.deletedAfter = TRUE] ELSE runs[i]]
       ELSE UNCHANGED <<compactionInProgress, lastCompactionTime, runs>>
    /\ UNCHANGED <<now, storage, cfg, dispatcherErrors>>

\* Phase 2 of a run: the TruncationResult, or no truncation when disabled
TruncationPhase(sessionID, totalUsed, contextLimit) ==
    IF cfg.truncationEnabled
    THEN truncateUntilTargetTokens(storage[sessionID], totalUsed - 0, contextLimit,
                                   threshold, CHARS_PER_TOKEN, cfg.protectedMessages)
    ELSE [success |-> FALSE, sufficient |-> FALSE, truncatedCount |-> 0,
          totalBytesRemoved |-> 0, targetBytesToRemove |-> 0, msgs |-> storage[sessionID]]

\* Phase 1 of a run: strategy and rewrite passes it executes (it only logs that
\* the strategies are active via the message transform)
Phase1Passes == 0

\* tokensSaved after Phase 2
TokensSaved(truncationResult) ==
    IF truncationResult.truncatedCount > 0
    THEN truncationResult.totalBytesRemoved \div CHARS_PER_TOKEN
    ELSE 0

\* mutant: the decision compares the wrong way round
Decision_Inverted(currentTokens, contextLimit) ==
    IF currentTokens * 100 < DEFAULT_THRESHOLD_PCT * contextLimit
    THEN "toastFallback" ELSE "toastSkip"

\* "Decision": where the run continues after the recalculation
Decision(currentTokens, contextLimit) ==
    IF UnderThreshold(currentTokens, contextLimit) THEN "toastSkip" ELSE "toastFallback"

\* the first toast settles (resolved, or rejected and swallowed by .catch):
\* Phase 1 log, Phase 2 truncation, recalculation, decision, next toast
AfterStartToast(i) ==
    /\ i \in DOMAIN runs
    /\ runs[i].pc = "toastStart"
    /\ LET info == runs[i].info
           totalUsed == TotalUsed(info.tokens)
           contextLimit == ContextLimitOf(info)
           tr == TruncationPhase(info.sessionID, totalUsed, contextLimit)
           tokensSaved == TokensSaved(tr)
       IN  /\ storage' = [storage EXCEPT ![info.sessionID] = tr.msgs]
           /\ runs' = [runs EXCEPT ![i].strategyPasses = Phase1Passes,
                                   ![i].tokensSaved = tokensSaved,
                                   ![i].sufficient = tr.sufficient,
                                   ![i].totalBytesRemoved = tr.totalBytesRemoved,
                                   ![i].pc = Decision(totalUsed - tokensSaved, contextLimit)]
    /\ lastAct' = "other"
    /\ UNCHANGED <<pvars, bvars, tvars, avars, kvars, xvars, hvars>>
    /\ UNCHANGED <<compactionInProgress, lastCompactionTime, now, cfg, dispatcherErrors>>

\* the "Smart Compaction Success" toast settles: delete, return, finally
AfterSkipToast(i) ==
    /\ i \in DOMAIN runs
    /\ runs[i].pc = "toastSkip"
    /\ compactionInProgress' =
          ClearInProgress(compactionInProgress \ {runs[i].info.sessionID},
                          runs[i].info.sessionID)
    /\ runs' = [runs EXCEPT ![i].pc = "done", ![i].outcome = "skipped"]
    /\ lastAct' = "other"
    /\ UNCHANGED <<pvars, bvars, tvars, avars, kvars, xvars, hvars>>
    /\ UNCHANGED <<lastCompactionTime, now, storage, cfg, dispatcherErrors>>

\* the "Summarizing..." toast settles: client.session.summarize is called
AfterFallbackToast(i) ==
    /\ i \in DOMAIN runs
    /\ runs[i].pc = "toastFallback"
    /\ runs' = [runs EXCEPT ![i].pc = "summarize", ![i].summarizeCalled = TRUE]
    /\ lastAct' = "other"
    /\ UNCHANGED <<pvars, bvars, tvars, avars, kvars, xvars, hvars>>
    /\ UNCHANGED <<compactionInProgress, lastCompactionTime, now, storage, cfg,
                   dispatcherErrors>>

\* client.session.summarize resolves: the "Compaction Complete" toast is shown
SummarizeResolves(i) ==
    /\ i \in DOMAIN runs
    /\ runs[i].pc = "summarize"
    /\ runs' = [runs EXCEPT ![i].pc = "toastDone"]
    /\ lastAct' = "other"
    /\ UNCHANGED <<pvars, bvars, tvars, avars, kvars, xvars, hvars>>
    /\ UNCHANGED <<compactionInProgress, lastCompactionTime, now, storage, cfg,
                   dispatcherErrors>>

\* whether an exception of the try block leaves checkAndTriggerCompaction:
\* the catch clause logs it and does not rethrow
ErrorEscapes == FALSE

\* client.session.summarize rejects: catch, finally
SummarizeRejects(i) ==
    /\ i \in DOMAIN runs
    /\ runs[i].pc = "summarize"
    /\ compactionInProgress' = ClearInProgress(compactionInProgress, runs[i].info.sessionID)
    /\ runs' = [runs EXCEPT ![i].pc = "done", ![i].outcome = "failed"]
    /\ dispatcherErrors' = dispatcherErrors + B2N(ErrorEscapes)
    /\ lastAct' = "other"
    /\ UNCHANGED <<pvars, bvars, tvars, avars, kvars, xvars, hvars>>
    /\ UNCHANGED <<lastCompactionTime, now, storage, cfg>>

\* the "Compaction Complete" toast settles: finally
AfterDoneToast(i) ==
    /\ i \in DOMAIN runs
    /\ runs[i].pc = "toastDone"
    /\ compactionInProgress' = ClearInProgress(compactionInProgress, runs[i].info.sessionID)
    /\ runs' = [runs EXCEPT ![i].pc = "done", ![i].outcome = "summarized"]
    /\ lastAct' = "other"
    /\ UNCHANGED <<pvars, bvars, tvars, avars, kvars, xvars, hvars>>
    /\ UNCHANGED <<lastCompactionTime, now, storage, cfg, dispatcherErrors>>

\* the clock advances
Tick ==
    /\ now < StartTime + MaxTicks * TickMs
    /\ now' = now + TickMs
    /\ lastAct' = "other"
    /\ UNCHANGED <<pvars, bvars, tvars, avars, kvars, xvars, hvars>>
    /\ UNCHANGED <<compactionInProgress, lastCompactionTime, runs, storage, cfg,
                   dispatcherErrors>>

-----------------------------------------------------------------------------
(* Properties of the compaction controller                                  *)

RunIds == DOMAIN runs
Active(i) == runs[i].pc # "done"
SidOf(i) == runs[i].info.sessionID

\* tokens left after the truncation phase of run i, and its context limit
CurrentTokensOf(i) == TotalUsed(runs[i].info.tokens) - runs[i].tokensSaved
LimitOf(i) == ContextLimitOf(runs[i].info)

\* C4: while a triggered run of a session has not finished, no later run of
\* the same session gets to its truncation or summarization.
C4_SingleFlight ==
    \A i, j \in RunIds :
        (i < j /\ SidOf(i) = SidOf(j) /\ Active(i))
            => (runs[j].pc = "toastStart" \/ runs[j].outcome = "invalid")

\* C5: a message.updated event either starts a run, and then it is a finished
\* non-summary assistant message with token info whose total reaches minTokens
\* and whose ratio reaches the threshold, or it leaves the in-progress set, the
\* cooldown map, the stored outputs and the summarize calls as they were.
C5_Eligible(info) ==
    /\ info.present /\ info.role = "assistant" /\ info.finish /\ ~info.summary
    /\ info.tokens.present
    /\ info.tokens.input + info.tokens.cacheRead + info.tokens.output >= minTokens
    /\ (info.tokens.input + info.tokens.cacheRead + info.tokens.output) * 100
          >= DEFAULT_THRESHOLD_PCT * inferContextLimit(info.modelID, cfg.ext1M)

C6_Cooldown ==
    \A i, j \in RunIds :
        (i < j /\ SidOf(i) = SidOf(j) /\ ~runs[i].deletedAfter)
            => runs[j].triggeredAt - runs[i].triggeredAt >= DEFAULT_COOLDOWN_MS

C6_Witness ==
    /\ Len(runs) = 2
    /\ SidOf(1) = SidOf(2)
    /\ ~runs[1].deletedAfter
    /\ runs[2].triggeredAt - runs[1].triggeredAt = DEFAULT_COOLDOWN_MS
    /\ runs[1].outcome = "summarized"

\* C7: whenever a triggered run ends, by whichever exit, its session is not in
\* compactionInProgress, and no error has reached the event dispatcher.
RunEnds(i) == runs'[i].pc = "done" /\ (i \notin DOMAIN runs \/ runs[i].pc # "done")

C7_GuardCleared ==
    [][ /\ \A i \in DOMAIN runs' :
              RunEnds(i) => runs'[i].info.sessionID \notin compactionInProgress'
        /\ dispatcherErrors' = 0 ]_vars

C7_Witness ==
    /\ Len(runs) = 2
    /\ runs[1].outcome = "failed"
    /\ runs[2].outcome = "invalid"
    /\ compactionInProgress = {}
    /\ dispatcherErrors = 0

\* C8: after the truncation phase summarize is called exactly when
\* (totalUsed - tokensSaved) / contextLimit is not under the threshold; under the
\* threshold the run is skipped without a summarize call.
C8_Under(i) == CurrentTokensOf(i) * 100 < DEFAULT_THRESHOLD_PCT * LimitOf(i)

C8_Decision ==
    \A i \in RunIds :
        /\ (runs[i].pc = "toastSkip" \/ runs[i].outcome = "skipped")
              => (C8_Under(i) /\ ~runs[i].summarizeCalled)
        /\ (runs[i].pc \in {"toastFallback", "summarize", "toastDone"}
            \/ runs[i].outcome \in {"summarized", "failed"}) => ~C8_Under(i)
        /\ runs[i].summarizeCalled => ~C8_Under(i)
        /\ runs[i].outcome \in {"summarized", "failed"} => runs[i].summarizeCalled

\* 200,000 limit: 160,000 tokens left (0.80) skipped, 174,000 left (0.87) summarized
C8_Witness ==
    /\ Len(runs) = 2
    /\ LimitOf(1) = 200000 /\ CurrentTokensOf(1) = 160000 /\ runs[1].outcome = "skipped"
    /\ LimitOf(2) = 200000 /\ CurrentTokensOf(2) = 174000 /\ runs[2].summarizeCalled

\* C9: every run that has measured the usage ratio for its decision has
\* executed at least one pass of the strategies and the rewrite before.
C9_StrategiesBeforeMeasure ==
    \A i \in RunIds :
        (runs[i].pc # "toastStart" /\ runs[i].outcome # "invalid")
            => runs[i].strategyPasses >= 1

-----------------------------------------------------------------------------
(* prune / pruneToolOutputs (unnamed/part_002)                              *)

PRUNED_TOOL_OUTPUT_REPLACEMENT ==
    "[Output removed to save context - information superseded or no longer needed]"

MaxParts == 2         \* parts of a message list
MaxApply == 2         \* successive applications of a rewrite

CallIDs == {"c1", "c2"}

ToolPart(callID, status, output, error) ==
    [type |-> "tool", callID |-> callID, status |-> status, output |-> output,
     error |-> error, text |-> ""]

TextPart(text) ==
    [type |-> "text", callID |-> "", status |-> "", output |-> "", error |-> "",
     text |-> text]

WithParts(role, parts) == [info |-> [role |-> role], parts |-> parts]

PartChoices ==
    {TextPart("hello")}
    \cup {ToolPart(c, "completed", o, "") :
             c \in CallIDs, o \in {"out", PRUNED_TOOL_OUTPUT_REPLACEMENT}}
    \cup {ToolPart("c1", "running", "", ""), ToolPart("c1", "error", "", "boom")}

SeqsUpTo(S, n) == UNION {[1..k -> S] : k \in 0..n}

\* message lists: a user and an assistant message sharing up to MaxParts parts
MessageLists ==
    { << WithParts("user", SubSeq(ps, 1, Min(k, Len(ps)))),
         WithParts("assistant", SubSeq(ps, Min(k, Len(ps)) + 1, Len(ps))) >> :
        ps \in SeqsUpTo(PartChoices, MaxParts), k \in 0..MaxParts }

\* mutant: the commented-out branch for errored tools switched on
PrunePart_AlsoErrors(part, toolIds) ==
    IF part.type # "tool" THEN part
    ELSE IF part.callID \notin toolIds THEN part
    ELSE IF part.status = "completed"
         THEN [part EXCEPT !.output = PRUNED_TOOL_OUTPUT_REPLACEMENT]
    ELSE IF part.status = "error"
         THEN [part EXCEPT !.error = PRUNED_TOOL_OUTPUT_REPLACEMENT]
    ELSE part

\* the body of the inner loop of pruneToolOutputs
PrunePart(part, toolIds) ==
    IF part.type # "tool" THEN part
    ELSE IF part.callID \notin toolIds THEN part
    ELSE IF part.status = "completed"
         THEN [part EXCEPT !.output = PRUNED_TOOL_OUTPUT_REPLACEMENT]
    ELSE part

pruneToolOutputs(toolIds, messages) ==
    [m \in DOMAIN messages |->
        [messages[m] EXCEPT !.parts =
            [p \in DOMAIN messages[m].parts |-> PrunePart(messages[m].parts[p], toolIds)]]]

\* prune(state, logger, config, messages)
prune(toolIds, messages) == pruneToolOutputs(toolIds, messages)

\* the message transform applies the pending prunes to output.messages
Prune ==
    /\ pcount < MaxApply
    /\ pmsgs' = prune(pruneToolIds, pmsgs)
    /\ pcount' = pcount + 1
    /\ pfirst' = IF pcount = 0 THEN pmsgs' ELSE pfirst
    /\ UNCHANGED <<pmsgs0, pruneToolIds>>
    /\ UNCHANGED <<cvars, bvars, tvars, avars, kvars, xvars, hvars>>

-----------------------------------------------------------------------------
(* bedrockFormat (lib/fetch-wrapper/formats/bedrock.ts) and handleFormat    *)
(* (unnamed/part_006).  A content block is [kind, toolUseId, name, content]: *)
(* content holds the text items of a toolResult, or the text of a text      *)
(* block.                                                                   *)

PRUNED_CONTENT_MESSAGE ==
    "[Output removed to save context - information superseded or no longer needed]"

MaxBMsgs == 2         \* messages of a Bedrock request body

\* String.prototype.toLowerCase on the ids and tool names in use
toLowerCase(str) ==
    CASE str = "T1" -> "t1"
      [] str = "Task" -> "task"
      [] OTHER -> str

ToolUse(id, name) == [kind |-> "toolUse", toolUseId |-> id, name |-> name, content |-> <<>>]
ToolResult(id, content) ==
    [kind |-> "toolResult", toolUseId |-> id, name |-> "", content |-> content]
TextBlock(text) == [kind |-> "text", toolUseId |-> "", name |-> "", content |-> <<text>>]
CachePoint == [kind |-> "cachePoint", toolUseId |-> "", name |-> "", content |-> <<>>]
BMsg(role, content) == [role |-> role, content |-> content]

BMsgChoices ==
    {BMsg("assistant", <<ToolUse(id, name)>>) : id \in {"T1", "t2"}, name \in {"read", "Task"}}
    \cup {BMsg("user", <<ToolResult(id, <<"out">>)>>) : id \in {"T1", "t1", "t2"}}
    \cup { BMsg("user", <<ToolResult("t2", <<PRUNED_CONTENT_MESSAGE>>)>>),
           BMsg("user", <<ToolResult("T1", <<"a", "b">>), TextBlock("hi"), CachePoint>>),
           BMsg("assistant", <<ToolResult("t2", <<"out">>)>>),
           BMsg("assistant", <<TextBlock("ok"), ToolUse("t2", "read")>>),
           BMsg("user", <<TextBlock("hi")>>) }

BedrockBodies == SeqsUpTo(BMsgChoices, MaxBMsgs)

\* ctx.state and ctx.config as handleFormat reads them; prunedIds are the
\* pruned ids of the most recent active session (none: the empty set)
BedrockStates ==
    [toolParameters : {<<>>},
     prunedIds : {{}, {"T1"}, {"t2"}, {"t1", "t2"}},
     protectedTools : {{}, {"Task"}},
     onTool : BOOLEAN,
     modified : {FALSE}]

\* mutant: the placeholder is added to the content array instead of replacing it
ReplaceBlock_Append(block, toolIdLower, prunedMessage) ==
    IF block.kind = "toolResult" /\ toLowerCase(block.toolUseId) = toolIdLower
    THEN [block EXCEPT !.content = Append(@, prunedMessage)]
    ELSE block

\* the callback of m.content.map in replaceToolOutput
ReplaceBlock(block, toolIdLower, prunedMessage) ==
    IF block.kind = "toolResult" /\ toLowerCase(block.toolUseId) = toolIdLower
    THEN [block EXCEPT !.content = <<prunedMessage>>]
    ELSE block

\* mutant: the role of the message is not looked at
MessageModified_AnyRole(m, toolIdLower) ==
    \E b \in DOMAIN m.content :
       m.content[b].kind = "toolResult" /\ toLowerCase(m.content[b].toolUseId) = toolIdLower

\* messageModified for message m
MessageModified(m, toolIdLower) ==
    /\ m.role = "user"
    /\ \E b \in DOMAIN m.content :
          m.content[b].kind = "toolResult" /\ toLowerCase(m.content[b].toolUseId) = toolIdLower

\* bedrockFormat.replaceToolOutput: [data, replaced]
replaceToolOutput(data, toolId, prunedMessage) ==
    LET toolIdLower == toLowerCase(toolId)
    IN  [data |-> [i \in DOMAIN data |->
                      IF MessageModified(data[i], toolIdLower)
                      THEN [data[i] EXCEPT !.content =
                              [b \in DOMAIN data[i].content |->
                                  ReplaceBlock(data[i].content[b], toolIdLower, prunedMessage)]]
                      ELSE data[i]],
         replaced |-> \E i \in DOMAIN data : MessageModified(data[i], toolIdLower)]

\* bedrockFormat.hasToolOutputs
hasToolOutputs(data) ==
    \E i \in DOMAIN data :
        data[i].role = "user" /\ \E b \in DOMAIN data[i].content :
                                     data[i].content[b].kind = "toolResult"

\* bedrockFormat.cacheToolParameters, over the blocks from (i, b) on
RECURSIVE CacheFrom(_, _, _, _)
CacheFrom(data, i, b, toolParameters) ==
    IF i > Len(data) THEN toolParameters
    ELSE IF b > Len(data[i].content) THEN CacheFrom(data, i + 1, 1, toolParameters)
    ELSE LET block == data[i].content[b]
         IN  IF data[i].role = "assistant" /\ block.kind = "toolUse" /\ block.toolUseId # ""
             THEN CacheFrom(data, i, b + 1,
                            [k \in DOMAIN toolParameters \cup {toLowerCase(block.toolUseId)} |->
                                IF k = toLowerCase(block.toolUseId)
                                THEN [tool |-> block.name] ELSE toolParameters[k]])
             ELSE CacheFrom(data, i, b + 1, toolParameters)

cacheToolParameters(data, toolParameters) == CacheFrom(data, 1, 1, toolParameters)

\* bedrockFormat.extractToolOutputs: the ToolOutput list, from (i, b) on;
\* toolName "" stands for metadata?.tool === undefined
RECURSIVE ExtractFrom(_, _, _, _)
ExtractFrom(data, i, b, toolParameters) ==
    IF i > Len(data) THEN <<>>
    ELSE IF b > Len(data[i].content) THEN ExtractFrom(data, i + 1, 1, toolParameters)
    ELSE LET block == data[i].content[b]
             id == toLowerCase(block.toolUseId)
         IN  (IF data[i].role = "user" /\ block.kind = "toolResult" /\ block.toolUseId # ""
              THEN <<[id |-> id,
                      toolName |-> IF id \in DOMAIN toolParameters
                                   THEN toolParameters[id].tool ELSE ""]>>
              ELSE <<>>) \o ExtractFrom(data, i, b + 1, toolParameters)

extractToolOutputs(data, toolParameters) == ExtractFrom(data, 1, 1, toolParameters)

\* getAllPrunedIds: the session's pruned ids, lower-cased
getAllPrunedIds(prunedIds) == {toLowerCase(id) : id \in prunedIds}

\* the replacement loop of handleFormat from output k on: [data, replacedCount]
RECURSIVE ReplaceLoop(_, _, _, _, _, _)
ReplaceLoop(data, toolOutputs, k, allPrunedIds, protectedToolsLower, replacedCount) ==
    IF k > Len(toolOutputs) THEN [data |-> data, replacedCount |-> replacedCount]
    ELSE LET output == toolOutputs[k]
         IN  IF output.toolName # "" /\ toLowerCase(output.toolName) \in protectedToolsLower
             THEN ReplaceLoop(data, toolOutputs, k + 1, allPrunedIds, protectedToolsLower,
                              replacedCount)
             ELSE IF output.id \in allPrunedIds
             THEN LET r == replaceToolOutput(data, output.id, PRUNED_CONTENT_MESSAGE)
                  IN  ReplaceLoop(r.data, toolOutputs, k + 1, allPrunedIds,
                                  protectedToolsLower, replacedCount + B2N(r.replaced))
             ELSE ReplaceLoop(data, toolOutputs, k + 1, allPrunedIds, protectedToolsLower,
                              replacedCount)

\* index of the last user message, 0 if there is none
LastUser(data) ==
    IF \E i \in DOMAIN data : data[i].role = "user"
    THEN CHOOSE i \in DOMAIN data :
            data[i].role = "user" /\ \A j \in DOMAIN data : j > i => data[j].role # "user"
    ELSE 0

\* injectSynth / injectPrunableList: the instruction text goes to the end of
\* the last user turn; [data, injected]
injectAuxiliaryContent(data, text) ==
    IF LastUser(data) = 0 THEN [data |-> data, injected |-> FALSE]
    ELSE [data |-> [data EXCEPT ![LastUser(data)].content = Append(@, TextBlock(text))],
          injected |-> TRUE]

\* handleFormat(body, ctx, inputUrl, bedrockFormat): [data, toolParameters, modified]
handleFormat(data, st) ==
    LET toolParameters == cacheToolParameters(data, st.toolParameters)
        inj == IF st.onTool THEN injectAuxiliaryContent(data, "<dcp>")
               ELSE [data |-> data, injected |-> FALSE]
        allPrunedIds == getAllPrunedIds(st.prunedIds)
        toolOutputs == extractToolOutputs(inj.data, toolParameters)
        protectedToolsLower == {toLowerCase(t) : t \in st.protectedTools}
        loop == ReplaceLoop(inj.data, toolOutputs, 1, allPrunedIds, protectedToolsLower, 0)
    IN  IF ~hasToolOutputs(inj.data) \/ allPrunedIds = {}
        THEN [data |-> inj.data, toolParameters |-> toolParameters, modified |-> inj.injected]
        ELSE [data |-> loop.data, toolParameters |-> toolParameters,
              modified |-> inj.injected \/ loop.replacedCount > 0]

\* one request body goes through handleFormat
HandleFormat ==
    /\ bphase = "input"
    /\ LET r == handleFormat(bdata, bstate)
       IN  /\ bdata' = r.data
           /\ bstate' = [bstate EXCEPT !.toolParameters = r.toolParameters,
                                       !.modified = r.modified]
    /\ bphase' = "handled"
    /\ UNCHANGED <<bdata0, bcount, bid, bfirst, breplaced>>
    /\ UNCHANGED <<cvars, pvars, tvars, avars, kvars, xvars, hvars>>

\* bedrockFormat.replaceToolOutput called on its own, repeatedly with one id
ReplaceToolOutput(toolId) ==
    /\ bphase \in {"input", "replaced"}
    /\ bcount < MaxApply
    /\ bcount > 0 => toolId = bid
    /\ bdata' = replaceToolOutput(bdata, toolId, PRUNED_CONTENT_MESSAGE).data
    /\ breplaced' = replaceToolOutput(bdata, toolId, PRUNED_CONTENT_MESSAGE).replaced
    /\ bphase' = "replaced"
    /\ bcount' = bcount + 1
    /\ bid' = toolId
    /\ bfirst' = IF bcount = 0 THEN bdata' ELSE bfirst
    /\ UNCHANGED <<bdata0, bstate>>
    /\ UNCHANGED <<cvars, pvars, tvars, avars, kvars, xvars, hvars>>

-----------------------------------------------------------------------------
(* createChatMessageTransformHandler: lib/hooks.ts and the copy in          *)
(* lib/config.ts.  An invocation suspends once, at `await checkSession`;    *)
(* the rest of the handler runs without interruption.  log lists the calls  *)
(* the invocation made, in order.                                           *)

MaxInvocations == 2   \* invocations of the transform handler

Strategies(deduplication, supersedeWrites, pruneTool) ==
    [deduplication |-> deduplication, supersedeWrites |-> supersedeWrites,
     pruneTool |-> pruneTool]

StrategyChoices == {Strategies(d, w, t) : d \in BOOLEAN, w \in BOOLEAN, t \in BOOLEAN}

\* state.provider.effectiveConfig: undefined, or [enabled, strategies]
EffectiveConfigs ==
    { [present |-> FALSE, enabled |-> FALSE, strategies |-> Strategies(FALSE, FALSE, FALSE)],
      [present |-> TRUE, enabled |-> FALSE, strategies |-> Strategies(TRUE, TRUE, TRUE)],
      [present |-> TRUE, enabled |-> TRUE, strategies |-> Strategies(TRUE, FALSE, TRUE)],
      [present |-> TRUE, enabled |-> TRUE, strategies |-> Strategies(FALSE, TRUE, FALSE)] }

TransformConfigs ==
    [version : {"hooks", "config"}, strategies : StrategyChoices,
     effectiveConfig : EffectiveConfigs]

\* mutant: the handler of lib/hooks.ts does not look at effectiveConfig.enabled
TransformCalls_NoProviderCheck(conf, sub) ==
    LET strategies == IF conf.effectiveConfig.present THEN conf.effectiveConfig.strategies
                      ELSE conf.strategies
    IN  IF sub /\ conf.version = "hooks" THEN <<"checkSession">>
        ELSE <<"checkSession", "syncToolCache">>
             \o (IF strategies.deduplication THEN <<"deduplicate">> ELSE <<>>)
             \o (IF strategies.supersedeWrites THEN <<"supersedeWrites">> ELSE <<>>)
             \o <<"prune">>
             \o (IF strategies.pruneTool THEN <<"insertPruneToolContext">> ELSE <<>>)

\* the calls of the handler after checkSession has resolved with
\* state.isSubAgent = sub
TransformCalls(conf, sub) ==
    IF conf.version = "hooks"
    THEN LET effectiveConfig == conf.effectiveConfig
             strategies == IF effectiveConfig.present THEN effectiveConfig.strategies
                           ELSE conf.strategies
         IN  IF sub THEN <<"checkSession">>
             ELSE IF effectiveConfig.present /\ ~effectiveConfig.enabled
             THEN <<"checkSession">>
             ELSE <<"checkSession", "syncToolCache">>
                  \o (IF strategies.deduplication THEN <<"deduplicate">> ELSE <<>>)
                  \o (IF strategies.supersedeWrites THEN <<"supersedeWrites">> ELSE <<>>)
                  \o <<"prune">>
                  \o (IF strategies.pruneTool THEN <<"insertPruneToolContext">> ELSE <<>>)
    ELSE <<"checkSession", "syncToolCache">>
         \o (IF ~sub THEN <<"deduplicate", "supersedeWrites">> ELSE <<>>)
         \o <<"prune", "insertPruneToolContext">>

StrategyCalls == {"deduplicate", "supersedeWrites"}

\* the host calls the handler; it suspends in checkSession
TransformStart ==
    /\ Len(tinv) < MaxInvocations
    /\ tinv' = Append(tinv, [pc |-> "checkSession", log |-> <<>>])
    /\ UNCHANGED <<isSubAgent, tconf>>
    /\ UNCHANGED <<cvars, pvars, bvars, avars, kvars, xvars, hvars>>

\* checkSession resolves, leaving state.isSubAgent = sub; the handler runs to
\* its end.  The strategies mark the tool ids in marked as prunable.
CheckSessionResolves(i, sub, marked) ==
    /\ i \in DOMAIN tinv
    /\ tinv[i].pc = "checkSession"
    /\ isSubAgent' = sub
    /\ LET calls == TransformCalls(tconf, sub)
           ids == IF Range(calls) \cap StrategyCalls # {} THEN pruneToolIds \cup marked
                  ELSE pruneToolIds
       IN  /\ tinv' = [tinv EXCEPT ![i] = [pc |-> "done", log |-> calls]]
           /\ pruneToolIds' = ids
           /\ IF "prune" \in Range(calls)
              THEN /\ pmsgs' = prune(ids, pmsgs)
                   /\ pcount' = pcount + 1
                   /\ pfirst' = IF pcount = 0 THEN pmsgs' ELSE pfirst
              ELSE UNCHANGED <<pmsgs, pcount, pfirst>>
    /\ UNCHANGED <<pmsgs0, tconf>>
    /\ UNCHANGED <<cvars, bvars, avars, kvars, xvars, hvars>>

-----------------------------------------------------------------------------
(* Auto-prune strategy (lib/strategies/auto-prune.ts) and the prunable-tools *)
(* list (lib/messages/inject.ts).  A cached invocation is [id, tool,        *)
(* filePath]; filePath "" stands for parameters without a file path.        *)

MaxTurn == 2          \* turns of the session
MaxAutoPrunes == 2    \* calls of autoPrune

ParamEntry(id, tool, filePath) == [id |-> id, tool |-> tool, filePath |-> filePath]

\* state.toolParameters together with the tool id list of the live messages
SessionChoices ==
    { [params |-> <<ParamEntry("k1", "read", "a.ts"), ParamEntry("k2", "task", "")>>,
       toolIdList |-> <<"k1", "k2">>],
      [params |-> <<ParamEntry("k1", "read", ".env"), ParamEntry("k2", "read", "a.ts")>>,
       toolIdList |-> <<"k2", "k1">>],
      [params |-> <<ParamEntry("k2", "task", ""), ParamEntry("k1", "read", ""),
                    ParamEntry("k3", "read", "a.ts")>>,
       toolIdList |-> <<"k1", "k2">>] }

\* config.tools.pinningMode, config.tools.settings.protectedTools and
\* config.protectedFilePatterns
AutoPruneConfigs ==
    { [enabled |-> e, pruneFrequency |-> f, warningTurns |-> w, protectedTools |-> g.tools,
       protectedFilePatterns |-> g.patterns] :
        e \in BOOLEAN, f \in {1, 2}, w \in {1, 2},
        g \in { [tools |-> {}, patterns |-> {}], [tools |-> {"task"}, patterns |-> {".env"}] } }

PinDurations == {1, 2}

\* getFilePathFromParameters
getFilePathFromParameters(entry) == entry.filePath

\* isProtectedFilePath: the path matches one of the protect-list patterns
isProtectedFilePath(filePath, patterns) ==
    /\ filePath # ""
    /\ \E pattern \in patterns :
          \/ pattern = filePath
          \/ pattern = "*.ts" /\ filePath = "a.ts"

\* mutant: the position of the id among the keys of the cache
indexOf_InCache(list, x) ==
    IF \E i \in DOMAIN list : list[i] = x
    THEN (CHOOSE i \in DOMAIN apParams : apParams[i].id = x) - 1
    ELSE 0 - 1

\* 0-based Array.prototype.indexOf; -1 if absent
indexOf(list, x) ==
    IF \E i \in DOMAIN list : list[i] = x
    THEN (CHOOSE i \in DOMAIN list : list[i] = x /\ \A j \in DOMAIN list : j < i => list[j] # x) - 1
    ELSE 0 - 1

\* the number Infinity: above every count of turns
Infinity == 1000000000

Max(a, b) == IF a >= b THEN a ELSE b

\* mutant: the turns since the last auto-prune counted from zero
turnsUntilAutoPrune_FromZero(turn, lastTurn, config) ==
    IF ~config.enabled THEN Infinity
    ELSE Max(0, config.pruneFrequency - turn)

turnsUntilAutoPrune(turn, lastTurn, config) ==
    IF ~config.enabled THEN Infinity
    ELSE LET turnsSinceLastPrune == turn - lastTurn
         IN  Max(0, config.pruneFrequency - turnsSinceLastPrune)

shouldShowAutoPruneWarning(turn, lastTurn, config) ==
    IF ~config.enabled THEN FALSE
    ELSE LET turns == turnsUntilAutoPrune(turn, lastTurn, config)
         IN  turns <= config.warningTurns /\ turns > 0

expirePins(pinMap, turn) ==
    [id \in {k \in DOMAIN pinMap : ~(turn >= pinMap[k].expiresAtTurn)} |-> pinMap[id]]

\* mutant: the protected-tool test always answers no
isProtectedTool_Never(toolName, config) == FALSE

isProtectedTool(toolName, config) == toolName \in config.protectedTools

\* mutant: the pin test always answers no
IsPinned_Never(pinMap, toolCallId) == FALSE

\* state.pins.has(toolCallId)
IsPinned(pinMap, toolCallId) == toolCallId \in DOMAIN pinMap

\* mutant: the already-pruned test of autoPrune switched off
Collected_AlsoPruned(entry, pinMap, pruneIds, toolIdList, config) ==
    /\ ~IsPinned(pinMap, entry.id)
    /\ ~isProtectedTool(entry.tool, config)
    /\ entry.id \in Range(toolIdList)

\* the callback of state.toolParameters.forEach in autoPrune: the entry is collected
Collected(entry, pinMap, pruneIds, toolIdList, config) ==
    /\ ~IsPinned(pinMap, entry.id)
    /\ entry.id \notin Range(pruneIds)
    /\ ~isProtectedTool(entry.tool, config)
    /\ entry.id \in Range(toolIdList)

RECURSIVE CollectFrom(_, _, _, _, _, _)
CollectFrom(params, i, pinMap, pruneIds, toolIdList, config) ==
    IF i > Len(params) THEN <<>>
    ELSE (IF Collected(params[i], pinMap, pruneIds, toolIdList, config)
          THEN <<params[i].id>> ELSE <<>>)
         \o CollectFrom(params, i + 1, pinMap, pruneIds, toolIdList, config)

\* autoPrune up to its return or its await: the new state.pins,
\* state.prune.toolIds and state.lastAutoPruneTurn, the ids marked, and
\* whether it is left waiting for sendAutoPruneNotification
autoPrune(params, pinMap, turn, lastTurn, pruneIds, toolIdList, config) ==
    LET quiet == [pins |-> pinMap, pruneIds |-> pruneIds, lastAutoPruneTurn |-> lastTurn,
                  marked |-> <<>>, suspended |-> FALSE, proceeded |-> FALSE]
        kept == expirePins(pinMap, turn)
        unpinnedIds == CollectFrom(params, 1, kept, pruneIds, toolIdList, config)
    IN  IF ~config.enabled THEN quiet
        ELSE IF turn - lastTurn < config.pruneFrequency THEN quiet
        ELSE IF Len(unpinnedIds) = 0
        THEN [quiet EXCEPT !.pins = kept, !.lastAutoPruneTurn = turn, !.proceeded = TRUE]
        ELSE [pins |-> kept, pruneIds |-> pruneIds \o unpinnedIds,
              lastAutoPruneTurn |-> lastTurn, marked |-> unpinnedIds, suspended |-> TRUE,
              proceeded |-> TRUE]

\* mutant: the already-pruned test of the list builder switched off
Listed_AlsoPruned(entry, pruneIds, toolIdList, config) ==
    /\ ~(entry.tool \in config.protectedTools)
    /\ ~isProtectedFilePath(getFilePathFromParameters(entry), config.protectedFilePatterns)
    /\ indexOf(toolIdList, entry.id) # 0 - 1

\* the callback of state.toolParameters.forEach in buildPrunableToolsList:
\* the entry gets a line
Listed(entry, pruneIds, toolIdList, config) ==
    /\ entry.id \notin Range(pruneIds)
    /\ ~(entry.tool \in config.protectedTools)
    /\ ~isProtectedFilePath(getFilePathFromParameters(entry), config.protectedFilePatterns)
    /\ indexOf(toolIdList, entry.id) # 0 - 1

\* one line of the list: numeric id and, in pinning mode, the pin status
ListLine(entry, pinMap, turn, toolIdList, config) ==
    LET pinned == config.enabled /\ entry.id \in DOMAIN pinMap
    IN  [numericId |-> indexOf(toolIdList, entry.id), toolCallId |-> entry.id,
         tool |-> entry.tool, pinned |-> pinned,
         turnsRemaining |-> IF pinned THEN pinMap[entry.id].expiresAtTurn - turn ELSE 0]

RECURSIVE ListFrom(_, _, _, _, _, _, _)
ListFrom(params, i, pinMap, turn, pruneIds, toolIdList, config) ==
    IF i > Len(params) THEN <<>>
    ELSE (IF Listed(params[i], pruneIds, toolIdList, config)
          THEN <<ListLine(params[i], pinMap, turn, toolIdList, config)>> ELSE <<>>)
         \o ListFrom(params, i + 1, pinMap, turn, pruneIds, toolIdList, config)

\* buildPrunableToolsList: the lines before they are joined and wrapped
buildPrunableToolsList(params, pinMap, turn, pruneIds, toolIdList, config) ==
    ListFrom(params, 1, pinMap, turn, pruneIds, toolIdList, config)

\* the sync of a message transform calls autoPrune
AutoPrune ==
    /\ Len(apRuns) < MaxAutoPrunes
    /\ LET r == autoPrune(apParams, pins, currentTurn, lastAutoPruneTurn, apPruneIds,
                          apToolIdList, apConfig)
       IN  /\ pins' = r.pins
           /\ apPruneIds' = r.pruneIds
           /\ lastAutoPruneTurn' = r.lastAutoPruneTurn
           /\ apRuns' = Append(apRuns, [turn |-> currentTurn, marked |-> r.marked,
                                        proceeded |-> r.proceeded,
                                        pc |-> IF r.suspended THEN "notify" ELSE "done"])
    /\ apAct' = "autoPrune"
    /\ UNCHANGED <<apParams, currentTurn, apToolIdList, apConfig, prunableList, apWarned, apWarning>>
    /\ UNCHANGED <<cvars, pvars, bvars, tvars, kvars, xvars, hvars>>

\* sendAutoPruneNotification resolves: the rest of autoPrune
AutoPruneNotified(i) ==
    /\ i \in DOMAIN apRuns
    /\ apRuns[i].pc = "notify"
    /\ lastAutoPruneTurn' = currentTurn
    /\ apRuns' = [apRuns EXCEPT ![i].pc = "done"]
    /\ apAct' = "notified"
    /\ UNCHANGED <<apParams, pins, currentTurn, apPruneIds, apToolIdList, apConfig, prunableList, apWarned, apWarning>>
    /\ UNCHANGED <<cvars, pvars, bvars, tvars, kvars, xvars, hvars>>

\* sendAutoPruneNotification rejects: autoPrune rejects at its await
AutoPruneNotifyRejects(i) ==
    /\ i \in DOMAIN apRuns
    /\ apRuns[i].pc = "notify"
    /\ apRuns' = [apRuns EXCEPT ![i].pc = "rejected"]
    /\ apAct' = "notified"
    /\ UNCHANGED <<apParams, pins, currentTurn, lastAutoPruneTurn, apPruneIds, apToolIdList, apConfig, prunableList, apWarned, apWarning>>
    /\ UNCHANGED <<cvars, pvars, bvars, tvars, kvars, xvars, hvars>>

\* the pin tool: pins[key] = turnCounter + durationTurns for an id the model
\* was shown that is still on the current prunable list
Pin(toolCallId, durationTurns) ==
    /\ \E l \in DOMAIN prunableList : prunableList[l].toolCallId = toolCallId
    /\ \E e \in Range(apParams) :
          e.id = toolCallId /\ Listed(e, apPruneIds, apToolIdList, apConfig)
    /\ pins' = [id \in DOMAIN pins \cup {toolCallId} |->
                   IF id = toolCallId THEN [expiresAtTurn |-> currentTurn + durationTurns]
                   ELSE pins[id]]
    /\ pins' # pins
    /\ apAct' = "pin"
    /\ UNCHANGED <<apParams, currentTurn, lastAutoPruneTurn, apPruneIds, apToolIdList, apConfig, apRuns, prunableList, apWarned, apWarning>>
    /\ UNCHANGED <<cvars, pvars, bvars, tvars, kvars, xvars, hvars>>

\* a new step-start part: the turn counter advances
NextTurn ==
    /\ currentTurn < MaxTurn
    /\ currentTurn' = currentTurn + 1
    /\ apAct' = "turn"
    /\ UNCHANGED <<apParams, pins, lastAutoPruneTurn, apPruneIds, apToolIdList, apConfig, apRuns, prunableList, apWarned, apWarning>>
    /\ UNCHANGED <<cvars, pvars, bvars, tvars, kvars, xvars, hvars>>

\* a sync re-derives the turn counter from a message list that lost its
\* oldest messages outside the plugin: the count of the step-start parts
\* that are left
Resync(turns) ==
    /\ turns < currentTurn
    /\ currentTurn' = turns
    /\ apAct' = "resync"
    /\ UNCHANGED <<apParams, pins, lastAutoPruneTurn, apPruneIds, apToolIdList, apConfig, apRuns, prunableList, apWarned, apWarning>>
    /\ UNCHANGED <<cvars, pvars, bvars, tvars, kvars, xvars, hvars>>

\* insertPruneToolContext builds the list from the current state
BuildList ==
    /\ prunableList' = buildPrunableToolsList(apParams, pins, currentTurn, apPruneIds,
                                              apToolIdList, apConfig)
    /\ apWarning' = (/\ Len(prunableList') > 0
                     /\ shouldShowAutoPruneWarning(currentTurn, lastAutoPruneTurn, apConfig))
    /\ apWarned' = IF apWarning' THEN apWarned \cup {currentTurn} ELSE apWarned
    /\ apAct' = "buildList"
    /\ UNCHANGED <<apParams, pins, currentTurn, lastAutoPruneTurn, apPruneIds, apToolIdList, apConfig, apRuns>>
    /\ UNCHANGED <<cvars, pvars, bvars, tvars, kvars, xvars, hvars>>

\* state after session creation, pinning mode with a frequency of two turns
AutoPruneAtRest ==
    /\ apParams = <<>>
    /\ pins = <<>>
    /\ currentTurn = 0
    /\ lastAutoPruneTurn = 0
    /\ apPruneIds = <<>>
    /\ apToolIdList = <<>>
    /\ apConfig = [enabled |-> TRUE, pruneFrequency |-> 2, warningTurns |-> 1,
                   protectedTools |-> {}, protectedFilePatterns |-> {}]
    /\ apRuns = <<>>
    /\ prunableList = <<>>
    /\ apWarned = {}
    /\ apWarning = FALSE
    /\ apAct = "init"

\* a session with cached invocations, before any pin or auto-prune
AutoPruneInput ==
    /\ \E session \in SessionChoices :
          /\ apParams = session.params
          /\ apToolIdList = session.toolIdList
    /\ pins = <<>>
    /\ currentTurn = 0
    /\ lastAutoPruneTurn = 0
    /\ apPruneIds = <<>>
    /\ apConfig \in AutoPruneConfigs
    /\ apRuns = <<>>
    /\ prunableList = <<>>
    /\ apWarned = {}
    /\ apWarning = FALSE
    /\ apAct = "init"

-----------------------------------------------------------------------------
(* Tool parameter cache: cacheToolParametersFromMessages and                *)
(* cacheToolParametersFromInput, in the copy with the size bound            *)
(* (unnamed/part_007) and in the copy without it (unnamed/part_004).        *)
(* Call ids are numbers here; 0 stands for a missing id.  An entry is       *)
(* [id, tool, parameters], kept in insertion order as a Map keeps its keys. *)

MAX_TOOL_PARAMETERS_CACHE_SIZE == 500

MaxBatch == 2         \* messages or input items of one caching call
MaxCacheCalls == 2    \* caching calls

\* toolCall.function.arguments / item.arguments: a string or an object
Arguments(isString, text) == [isString |-> isString, text |-> text]

WellFormedJSON == "{\"filePath\":\"a.ts\"}"
MalformedJSON == "{\"filePath\":"

\* JSON.parse on the strings in use: [ok, value]
JSONParse(text) ==
    CASE text = WellFormedJSON -> [ok |-> TRUE, value |-> "{filePath: a.ts}"]
      [] text = "null" -> [ok |-> TRUE, value |-> "null"]
      [] OTHER -> [ok |-> FALSE, value |-> ""]

\* typeof arguments === 'string' ? JSON.parse(arguments) : arguments
ParseArguments(arguments) ==
    IF arguments.isString THEN JSONParse(arguments.text)
    ELSE [ok |-> TRUE, value |-> arguments.text]

ArgumentChoices ==
    { Arguments(TRUE, WellFormedJSON), Arguments(TRUE, MalformedJSON),
      Arguments(FALSE, "{filePath: b.ts}") }

ToolCall(id, hasFunction, name, arguments) ==
    [id |-> id, hasFunction |-> hasFunction, name |-> name, arguments |-> arguments]

ToolCallChoices ==
    {ToolCall(1, TRUE, "read", a) : a \in ArgumentChoices}
    \cup {ToolCall(MAX_TOOL_PARAMETERS_CACHE_SIZE + 1, TRUE, "edit", a) :
             a \in {Arguments(TRUE, WellFormedJSON), Arguments(TRUE, MalformedJSON)}}
    \cup { ToolCall(MAX_TOOL_PARAMETERS_CACHE_SIZE + 2, TRUE, "bash", Arguments(TRUE, "null")),
           ToolCall(0, TRUE, "read", Arguments(TRUE, WellFormedJSON)),
           ToolCall(1, FALSE, "", Arguments(TRUE, WellFormedJSON)) }

ChatMessage(role, hasToolCalls, tool_calls) ==
    [role |-> role, hasToolCalls |-> hasToolCalls, tool_calls |-> tool_calls]

ChatMessageChoices ==
    {ChatMessage("assistant", TRUE, <<c>>) : c \in ToolCallChoices}
    \cup { ChatMessage("user", TRUE, <<ToolCall(1, TRUE, "read", Arguments(TRUE, WellFormedJSON))>>),
           ChatMessage("assistant", FALSE, <<>>),
           ChatMessage("assistant", TRUE,
               <<ToolCall(1, TRUE, "read", Arguments(TRUE, MalformedJSON)),
                 ToolCall(MAX_TOOL_PARAMETERS_CACHE_SIZE + 1, TRUE, "edit",
                          Arguments(TRUE, WellFormedJSON))>>) }

InputItem(type, call_id, name, arguments) ==
    [type |-> type, call_id |-> call_id, name |-> name, arguments |-> arguments]

InputItemChoices ==
    {InputItem("function_call", 1, "read", a) : a \in ArgumentChoices}
    \cup {InputItem("function_call", MAX_TOOL_PARAMETERS_CACHE_SIZE + 1, "edit", a) :
             a \in {Arguments(TRUE, WellFormedJSON), Arguments(TRUE, MalformedJSON)}}
    \cup { InputItem("message", 1, "read", Arguments(TRUE, WellFormedJSON)),
           InputItem("function_call", 0, "read", Arguments(TRUE, WellFormedJSON)),
           InputItem("function_call", 1, "", Arguments(TRUE, WellFormedJSON)) }

CacheEntry(id, tool, parameters) == [id |-> id, tool |-> tool, parameters |-> parameters]

\* a cache that earlier requests filled with n entries
CacheFilled(n) == [i \in 1..n |-> CacheEntry(i, "read", "{filePath: old.ts}")]

\* Map.prototype.set: a known key keeps its place in the insertion order
cacheSet(cache, entry) ==
    IF \E i \in DOMAIN cache : cache[i].id = entry.id
    THEN [i \in DOMAIN cache |-> IF cache[i].id = entry.id THEN entry ELSE cache[i]]
    ELSE Append(cache, entry)

\* mutant: the excess is taken from the newest end
trimToolParametersCache_Newest(cache) ==
    IF Len(cache) > MAX_TOOL_PARAMETERS_CACHE_SIZE
    THEN SubSeq(cache, 1, MAX_TOOL_PARAMETERS_CACHE_SIZE)
    ELSE cache

trimToolParametersCache(cache) ==
    IF Len(cache) > MAX_TOOL_PARAMETERS_CACHE_SIZE
    THEN SubSeq(cache, Len(cache) - MAX_TOOL_PARAMETERS_CACHE_SIZE + 1, Len(cache))
    ELSE cache

\* mutant: no try/catch around the parse, the error leaves the function
CacheOne_Throws(acc, id, name, arguments) ==
    LET params == ParseArguments(arguments)
    IN  IF params.ok
        THEN [acc EXCEPT !.cache = cacheSet(@, CacheEntry(id, name, params.value)),
                         !.cachedIds = Append(@, id)]
        ELSE [acc EXCEPT !.thrown = TRUE]

\* the try block of both functions; acc is [cache, cachedIds, tried, thrown]
CacheOne(acc, id, name, arguments) ==
    LET params == ParseArguments(arguments)
    IN  IF params.ok
        THEN [acc EXCEPT !.cache = cacheSet(@, CacheEntry(id, name, params.value)),
                         !.cachedIds = Append(@, id)]
        ELSE acc

\* the call reaches the try block
Tried(acc, id, name, arguments) ==
    [acc EXCEPT !.tried = Append(@, [id |-> id, name |-> name, arguments |-> arguments])]

\* the loop over message.tool_calls
RECURSIVE ToolCallsFrom(_, _, _)
ToolCallsFrom(tool_calls, c, acc) ==
    IF c > Len(tool_calls) \/ acc.thrown THEN acc
    ELSE LET toolCall == tool_calls[c]
         IN  IF toolCall.id = 0 \/ ~toolCall.hasFunction
             THEN ToolCallsFrom(tool_calls, c + 1, acc)
             ELSE ToolCallsFrom(tool_calls, c + 1,
                      CacheOne(Tried(acc, toolCall.id, toolCall.name, toolCall.arguments),
                               toolCall.id, toolCall.name, toolCall.arguments))

\* the loop over messages
RECURSIVE MessagesFrom(_, _, _)
MessagesFrom(messages, m, acc) ==
    IF m > Len(messages) \/ acc.thrown THEN acc
    ELSE IF messages[m].role # "assistant" \/ ~messages[m].hasToolCalls
         THEN MessagesFrom(messages, m + 1, acc)
         ELSE MessagesFrom(messages, m + 1, ToolCallsFrom(messages[m].tool_calls, 1, acc))

\* the loop over input
RECURSIVE InputFrom(_, _, _)
InputFrom(input, i, acc) ==
    IF i > Len(input) \/ acc.thrown THEN acc
    ELSE LET item == input[i]
         IN  IF item.type # "function_call" \/ item.call_id = 0 \/ item.name = ""
             THEN InputFrom(input, i + 1, acc)
             ELSE InputFrom(input, i + 1,
                      CacheOne(Tried(acc, item.call_id, item.name, item.arguments),
                               item.call_id, item.name, item.arguments))

\* the end of both functions: the copy of part_007 trims, the other does not
Finish(acc, version) ==
    IF acc.thrown \/ version # "part_007" THEN acc
    ELSE [acc EXCEPT !.cache = trimToolParametersCache(@)]

StartAcc(cache) == [cache |-> cache, cachedIds |-> <<>>, tried |-> <<>>, thrown |-> FALSE]

cacheToolParametersFromMessages(messages, cache, version) ==
    Finish(MessagesFrom(messages, 1, StartAcc(cache)), version)

cacheToolParametersFromInput(input, cache, version) ==
    Finish(InputFrom(input, 1, StartAcc(cache)), version)

\* the outcome r of a caching call becomes the state
Cached(r) ==
    /\ kcalls < MaxCacheCalls
    /\ kcache' = r.cache
    /\ kcalls' = kcalls + 1
    /\ klast' = [before |-> kcache, tried |-> r.tried, cachedIds |-> r.cachedIds,
                 thrown |-> r.thrown]
    /\ UNCHANGED kversion
    /\ UNCHANGED <<cvars, pvars, bvars, tvars, avars, xvars, hvars>>

CacheFromMessages(messages) == Cached(cacheToolParametersFromMessages(messages, kcache, kversion))

CacheFromInput(input) == Cached(cacheToolParametersFromInput(input, kcache, kversion))

CacheInput(cache, version) ==
    /\ kcache = cache
    /\ kversion = version
    /\ kcalls = 0
    /\ klast = [before |-> cache, tried |-> <<>>, cachedIds |-> <<>>, thrown |-> FALSE]

CacheAtRest == CacheInput(<<>>, "part_007")

-----------------------------------------------------------------------------
(* truncateUntilTargetTokens called on its own, on stored sessions of any   *)
(* shape within the bounds                                                  *)

MaxStoredMessages == 2   \* message files of the session
MaxTruncations == 2      \* calls of truncateUntilTargetTokens

StoredPart(size, truncated, w) == [outputSize |-> size, truncated |-> truncated, writable |-> w]

\* the part files of one message
StoredPartChoices ==
    { <<>>,
      <<StoredPart(60, FALSE, TRUE)>>,
      <<StoredPart(24, FALSE, TRUE)>>,
      <<StoredPart(16, FALSE, TRUE), StoredPart(24, FALSE, TRUE)>>,
      <<StoredPart(24, FALSE, FALSE), StoredPart(16, FALSE, TRUE)>>,
      <<StoredPart(TRUNCATION_MESSAGE_LEN, TRUE, TRUE), StoredPart(0, FALSE, TRUE)>> }

StoredMessageChoices == {[mtime |-> t, parts |-> ps] : t \in {1, 2}, ps \in StoredPartChoices}

StoredSessions == SeqsUpTo(StoredMessageChoices, MaxStoredMessages)

TruncationArg(targetRatioPct, protectedMessageCount) ==
    [maxTokens |-> 100, targetRatioPct |-> targetRatioPct, charsPerToken |-> CHARS_PER_TOKEN,
     protectedMessageCount |-> protectedMessageCount]

TruncationArgs ==
    { TruncationArg(80, 0), TruncationArg(80, 1), TruncationArg(DEFAULT_THRESHOLD_PCT, 1),
      TruncationArg(DEFAULT_THRESHOLD_PCT, 2) }

CurrentTokenChoices == {85, 90, 100}

NoTruncation ==
    [success |-> FALSE, sufficient |-> FALSE, truncatedCount |-> 0, totalBytesRemoved |-> 0,
     targetBytesToRemove |-> 0]

Truncate(currentTokens) ==
    /\ truncCalls < MaxTruncations
    /\ LET r == truncateUntilTargetTokens(truncStore, currentTokens, truncArgs.maxTokens,
                                          truncArgs.targetRatioPct, truncArgs.charsPerToken,
                                          truncArgs.protectedMessageCount)
       IN  /\ truncStore' = r.msgs
           /\ truncLast' = [before |-> truncStore, currentTokens |-> currentTokens,
                            result |-> [f \in DOMAIN NoTruncation |-> r[f]]]
    /\ truncCalls' = truncCalls + 1
    /\ UNCHANGED truncArgs
    /\ UNCHANGED <<cvars, pvars, bvars, tvars, avars, kvars, hvars>>

TruncationInput(msgs, args) ==
    /\ truncStore = msgs
    /\ truncArgs = args
    /\ truncLast = [before |-> msgs, currentTokens |-> 0, result |-> NoTruncation]
    /\ truncCalls = 0

TruncationAtRest ==
    TruncationInput(<<>>, [maxTokens |-> DEFAULT_CONTEXT_LIMIT,
                           targetRatioPct |-> DEFAULT_THRESHOLD_PCT,
                           charsPerToken |-> CHARS_PER_TOKEN, protectedMessageCount |-> 3])

-----------------------------------------------------------------------------
(* The system prompt hook: experimental.chat.system.transform (index.ts)    *)
(* and loadPrompt (lib/prompts/index.ts).                                   *)

MaxSystem == 2        \* entries of output.system handed to the hook
MaxSystemCalls == 2   \* calls of the hook

\* the keys of PROMPTS
PROMPTS ==
    { "discard-tool-spec", "extract-tool-spec",
      "user/system/system-prompt-both", "user/system/system-prompt-discard",
      "user/system/system-prompt-extract",
      "user/nudge/nudge-both", "user/nudge/nudge-discard", "user/nudge/nudge-extract" }

internalAgentSignatures ==
    { "You are a title generator",
      "You are a helpful AI assistant tasked with summarizing conversations",
      "Summarize what was done in this conversation" }

\* entries of output.system: [text, sig], sig the signature the text includes ("" for none)
SystemEntry(text, sig) == [text |-> text, sig |-> sig]

SystemEntryChoices ==
    { SystemEntry("You are opencode, a coding agent.", ""),
      SystemEntry("You are a title generator. Output a title.", "You are a title generator"),
      SystemEntry("Summarize what was done in this conversation, briefly.",
                  "Summarize what was done in this conversation") }

\* the entry the hook pushes: the content of a prompt
PromptEntry(name) == SystemEntry(name, "")

\* output.system.join("\n").includes(sig): no signature holds a line break
includes(system, sig) == \E i \in DOMAIN system : system[i].sig = sig

ToolFlags == [discard : BOOLEAN, extract : BOOLEAN, pin : BOOLEAN, pinningMode : BOOLEAN]

\* loadPrompt: [ok, content]; PROMPTS[name] undefined throws 'Prompt not found'
loadPrompt(name) ==
    IF name \in PROMPTS THEN [ok |-> TRUE, content |-> PromptEntry(name)]
    ELSE [ok |-> FALSE, content |-> PromptEntry("")]

\* the name the hook picks: "" when it returns before picking one
promptName(config) ==
    IF config.pinningMode \/ config.pin
    THEN (IF config.extract THEN "user/system/system-prompt-pin-extract"
          ELSE "user/system/system-prompt-pin")
    ELSE IF config.discard /\ config.extract THEN "user/system/system-prompt-both"
    ELSE IF config.discard THEN "user/system/system-prompt-discard"
    ELSE IF config.extract THEN "user/system/system-prompt-extract"
    ELSE ""

\* the hook: [system, outcome, promptName]
systemTransform(system, config) ==
    IF \E sig \in internalAgentSignatures : includes(system, sig)
    THEN [system |-> system, outcome |-> "internal", promptName |-> ""]
    ELSE LET name == promptName(config)
         IN  IF name = ""
             THEN [system |-> system, outcome |-> "none", promptName |-> ""]
             ELSE LET syntheticPrompt == loadPrompt(name)
                  IN  IF syntheticPrompt.ok
                      THEN [system |-> Append(system, syntheticPrompt.content),
                            outcome |-> "pushed", promptName |-> name]
                      ELSE [system |-> system, outcome |-> "thrown", promptName |-> name]

SystemTransform ==
    /\ sysCalls < MaxSystemCalls
    /\ Len(sysOutput) <= MaxSystem
    /\ LET r == systemTransform(sysOutput, sysConfig)
       IN  /\ sysOutput' = r.system
           /\ sysLast' = [before |-> sysOutput, outcome |-> r.outcome,
                          promptName |-> r.promptName]
    /\ sysCalls' = sysCalls + 1
    /\ UNCHANGED sysConfig
    /\ UNCHANGED <<corevars, ivars, lvars, uvars, nvars, gvars>>

\* the next request hands the hook a fresh output.system
SystemRequest(system) ==
    /\ sysCalls > 0
    /\ sysCalls < MaxSystemCalls
    /\ sysOutput # system
    /\ sysOutput' = system
    /\ UNCHANGED <<sysConfig, sysCalls, sysLast>>
    /\ UNCHANGED <<corevars, ivars, lvars, uvars, nvars, gvars>>

SystemInput(system, config) ==
    /\ sysOutput = system
    /\ sysConfig = config
    /\ sysCalls = 0
    /\ sysLast = [before |-> system, outcome |-> "none", promptName |-> ""]

SystemAtRest ==
    SystemInput(<<>>, [discard |-> FALSE, extract |-> FALSE, pin |-> FALSE,
                       pinningMode |-> FALSE])

-----------------------------------------------------------------------------
(* insertPruneToolContext (lib/messages/inject.ts): the prunable-tools list *)
(* or the cooldown message goes into the message list as one synthetic      *)
(* message.  getLastUserMessage and the two constructors of synthetic       *)
(* messages are imported from files that are not part of the sources at     *)
(* hand.                                                                    *)

MaxInjMessages == 2   \* messages handed to insertPruneToolContext
MaxInjCalls == 2      \* calls of insertPruneToolContext

Providers == {"anthropic", "github-copilot", "github-copilot-enterprise"}

\* a message: made is "session", "synthetic-user" or "synthetic-assistant-tool"
InjMessage(role, providerID, made, content) ==
    [role |-> role, providerID |-> providerID, made |-> made, content |-> content]

InjMessageChoices ==
    {InjMessage("user", providerID, "session", <<"hello">>) : providerID \in Providers}
    \cup {InjMessage("assistant", "anthropic", "session", <<"ok">>)}

\* config.tools.<name>.enabled; nudgeDue stands for
\* settings.nudgeEnabled && state.nudgeCounter >= settings.nudgeFrequency
InjectFlags == [pin : BOOLEAN, discard : BOOLEAN, extract : BOOLEAN, nudgeDue : BOOLEAN]

\* getLastUserMessage: the index of the last message of role user, 0 for none
getLastUserMessage(messages) ==
    IF \E i \in DOMAIN messages : messages[i].role = "user"
    THEN CHOOSE i \in DOMAIN messages :
            messages[i].role = "user" /\ \A j \in DOMAIN messages : j > i => messages[j].role # "user"
    ELSE 0

createSyntheticUserMessage(base, content) ==
    InjMessage("user", base.providerID, "synthetic-user", content)

createSyntheticAssistantMessageWithToolPart(base, content) ==
    InjMessage("assistant", base.providerID, "synthetic-assistant-tool", content)

\* mutant: every provider gets the user message
isGitHubCopilot_Never(providerID) == FALSE

isGitHubCopilot(providerID) ==
    providerID = "github-copilot" \/ providerID = "github-copilot-enterprise"

\* mutant: the list is built whether or not the last tool was a prune
prunableToolsContent_NoCooldown(lines, lastToolPrune, config, pinningMode, warning) ==
    IF Len(lines) = 0 THEN <<>>
    ELSE <<"prunable-tools">>
         \o (IF ~pinningMode /\ config.nudgeDue THEN <<"nudge">> ELSE <<>>)
         \o (IF warning THEN <<"auto-prune-warning">> ELSE <<>>)

\* prunableToolsContent by its parts, <<>> where the function returns
\* without one; lines are the lines of buildPrunableToolsList ("" is
\* returned for no lines)
prunableToolsContent(lines, lastToolPrune, config, pinningMode, warning) ==
    IF lastToolPrune THEN <<"cooldown">>
    ELSE IF Len(lines) = 0 THEN <<>>
    ELSE <<"prunable-tools">>
         \o (IF ~pinningMode /\ config.nudgeDue THEN <<"nudge">> ELSE <<>>)
         \o (IF warning THEN <<"auto-prune-warning">> ELSE <<>>)

\* insertPruneToolContext: the message list after the call
insertPruneToolContext(messages, lines, lastToolPrune, config, pinningMode, warning) ==
    LET content == prunableToolsContent(lines, lastToolPrune, config, pinningMode, warning)
        last == getLastUserMessage(messages)
    IN  IF ~config.pin /\ ~config.discard /\ ~config.extract THEN messages
        ELSE IF content = <<>> THEN messages
        ELSE IF last = 0 THEN messages
        ELSE IF isGitHubCopilot(messages[last].providerID)
        THEN Append(messages, createSyntheticAssistantMessageWithToolPart(messages[last], content))
        ELSE Append(messages, createSyntheticUserMessage(messages[last], content))

InsertPruneToolContext ==
    /\ injCalls < MaxInjCalls
    /\ injMessages' = insertPruneToolContext(injMessages,
                          buildPrunableToolsList(apParams, pins, currentTurn, apPruneIds,
                                                 apToolIdList, apConfig),
                          injLastToolPrune, injConfig, apConfig.enabled,
                          shouldShowAutoPruneWarning(currentTurn, lastAutoPruneTurn, apConfig))
    /\ injLast' = [before |-> injMessages]
    /\ injCalls' = injCalls + 1
    /\ UNCHANGED <<injConfig, injLastToolPrune>>
    /\ UNCHANGED <<corevars, svars, lvars, uvars, nvars, gvars>>

\* a prune tool ran, or another tool did: state.lastToolPrune changes
ToolRan(wasPrune) ==
    /\ injCalls > 0
    /\ injCalls < MaxInjCalls
    /\ injLastToolPrune # wasPrune
    /\ injLastToolPrune' = wasPrune
    /\ UNCHANGED <<injMessages, injConfig, injCalls, injLast>>
    /\ UNCHANGED <<corevars, svars, lvars, uvars, nvars, gvars>>

InjectInput(messages, config, lastToolPrune) ==
    /\ injMessages = messages
    /\ injConfig = config
    /\ injLastToolPrune = lastToolPrune
    /\ injCalls = 0
    /\ injLast = [before |-> messages]

InjectAtRest ==
    InjectInput(<<>>, [pin |-> FALSE, discard |-> FALSE, extract |-> FALSE, nudgeDue |-> FALSE],
                FALSE)

-----------------------------------------------------------------------------
(* inferContextLimit on its own: calls with the model ids of ModelIDs.      *)

MaxLimitCalls == 2    \* calls of inferContextLimit

InferContextLimit(modelID) ==
    /\ Len(limCalls) < MaxLimitCalls
    /\ limCalls' = Append(limCalls, [modelID |-> modelID,
                                     limit |-> inferContextLimit(modelID, limExt)])
    /\ UNCHANGED limExt
    /\ UNCHANGED <<corevars, svars, ivars, uvars, nvars, gvars>>

LimitInput(ext1M) ==
    /\ limExt = ext1M
    /\ limCalls = <<>>

LimitAtRest == LimitInput(FALSE)

-----------------------------------------------------------------------------
(* Prune confirmation: requestPruneConfirmation (lib/ui/dcp-status.js) and  *)
(* the ui.event handler (unnamed/part_001).  A request is                   *)
(* [ids, items, promise, value, resolveCalls, prompt]: items are the ids    *)
(* checked in the UI, promise is "pending" or "resolved", value what the    *)
(* promise resolved with, resolveCalls the calls of its resolve function,   *)
(* prompt the state of client.session.prompt.                               *)

MaxRequests == 2      \* calls of requestPruneConfirmation

PruneIdChoices == {{"a"}, {"a", "b"}}

\* resolve(value) on the promise of request r: the first call settles it
Resolve(reqs, r, value) ==
    [reqs EXCEPT ![r] = [@ EXCEPT !.promise = "resolved",
                                  !.value = IF reqs[r].promise = "pending" THEN value ELSE @,
                                  !.resolveCalls = @ + 1]]

\* requestPruneConfirmation up to its return
RequestPruneConfirmation(toolIds) ==
    /\ Len(uiReqs) < MaxRequests
    /\ IF autoConfirmEnabled
       THEN /\ uiReqs' = Append(uiReqs, [ids |-> toolIds, items |-> toolIds,
                                         promise |-> "resolved", value |-> toolIds,
                                         resolveCalls |-> 1, prompt |-> "none"])
            /\ UNCHANGED pendingPrune
       ELSE /\ uiReqs' = Append(uiReqs, [ids |-> toolIds, items |-> toolIds,
                                         promise |-> "pending", value |-> {},
                                         resolveCalls |-> 0, prompt |-> "sending"])
            /\ pendingPrune' = Len(uiReqs) + 1
    /\ UNCHANGED autoConfirmEnabled
    /\ UNCHANGED <<corevars, svars, ivars, lvars, nvars, gvars>>

\* client.session.prompt of request r resolves
PromptResolves(r) ==
    /\ r \in DOMAIN uiReqs
    /\ uiReqs[r].prompt = "sending"
    /\ uiReqs' = [uiReqs EXCEPT ![r].prompt = "sent"]
    /\ UNCHANGED <<pendingPrune, autoConfirmEnabled>>
    /\ UNCHANGED <<corevars, svars, ivars, lvars, nvars, gvars>>

\* client.session.prompt of request r rejects: the catch handler
PromptRejects(r) ==
    /\ r \in DOMAIN uiReqs
    /\ uiReqs[r].prompt = "sending"
    /\ uiReqs' = [Resolve(uiReqs, r, {}) EXCEPT ![r].prompt = "failed"]
    /\ pendingPrune' = 0
    /\ UNCHANGED autoConfirmEnabled
    /\ UNCHANGED <<corevars, svars, ivars, lvars, nvars, gvars>>

\* ui.event of component dcp-confirm while a confirmation is pending;
\* items are event.data.items of an item-toggled event
UiEvent(event, items) ==
    /\ pendingPrune # 0
    /\ LET pending == pendingPrune
       IN  CASE event = "item-toggled" ->
                  /\ items \subseteq uiReqs[pending].ids
                  /\ items # uiReqs[pending].items
                  /\ uiReqs' = [uiReqs EXCEPT ![pending].items = items]
                  /\ UNCHANGED <<pendingPrune, autoConfirmEnabled>>
             [] event = "confirm-prune" ->
                  /\ uiReqs' = Resolve(uiReqs, pending, uiReqs[pending].items)
                  /\ pendingPrune' = 0
                  /\ UNCHANGED autoConfirmEnabled
             [] event = "cancel-prune" ->
                  /\ uiReqs' = Resolve(uiReqs, pending, {})
                  /\ pendingPrune' = 0
                  /\ UNCHANGED autoConfirmEnabled
             [] event = "auto-prune" ->
                  /\ autoConfirmEnabled' = TRUE
                  /\ uiReqs' = Resolve(uiReqs, pending, uiReqs[pending].items)
                  /\ pendingPrune' = 0
             [] OTHER -> FALSE
    /\ UNCHANGED <<corevars, svars, ivars, lvars, nvars, gvars>>

UiEvents == {"item-toggled", "confirm-prune", "cancel-prune", "auto-prune"}

ConfirmAtRest ==
    /\ pendingPrune = 0
    /\ autoConfirmEnabled = FALSE
    /\ uiReqs = <<>>

-----------------------------------------------------------------------------
(* Provider overrides: getEffectiveProviderConfig (lib/config.ts), the      *)
(* chat.params handler, and the transform and idle handlers of lib/hooks.ts *)
(* as far as they read state.provider.effectiveConfig.  An optional boolean *)
(* of the config is "unset", "on" or "off".                                 *)

MaxParamsCalls == 3   \* calls of the chat.params handler
ProviderIDs == {"A", "B"}

AllStrategies(deduplication, onIdle, pruneTool, supersedeWrites) ==
    [deduplication |-> deduplication, onIdle |-> onIdle, pruneTool |-> pruneTool,
     supersedeWrites |-> supersedeWrites]

\* config.strategies.<name>.enabled
GlobalStrategyChoices ==
    { AllStrategies(TRUE, TRUE, TRUE, TRUE), AllStrategies(FALSE, FALSE, FALSE, FALSE),
      AllStrategies(TRUE, FALSE, TRUE, FALSE), AllStrategies(FALSE, TRUE, FALSE, TRUE) }

\* config.overrides.provider[providerID]
ProviderOverride(present, enabled, strategies) ==
    [present |-> present, enabled |-> enabled, strategies |-> strategies]

OverrideChoices ==
    { ProviderOverride(FALSE, "unset", AllStrategies("unset", "unset", "unset", "unset")),
      ProviderOverride(TRUE, "off", AllStrategies("on", "on", "on", "on")),
      ProviderOverride(TRUE, "unset", AllStrategies("unset", "on", "off", "unset")),
      ProviderOverride(TRUE, "on", AllStrategies("off", "unset", "unset", "on")) }

ProviderConfigs ==
    [strategies : GlobalStrategyChoices, overrides : [ProviderIDs -> OverrideChoices]]

\* override?.strategies?.x?.enabled ?? config.strategies.x.enabled
OrElse(optional, fallback) == IF optional = "unset" THEN fallback ELSE optional = "on"

getEffectiveProviderConfig(config, providerID) ==
    LET override == config.overrides[providerID]
    IN  IF override.present /\ override.enabled = "off"
        THEN [present |-> TRUE, enabled |-> FALSE,
              strategies |-> AllStrategies(FALSE, FALSE, FALSE, FALSE)]
        ELSE [present |-> TRUE, enabled |-> TRUE,
              strategies |-> [x \in DOMAIN config.strategies |->
                                 OrElse(override.strategies[x], config.strategies[x])]]

\* state.provider.effectiveConfig = null
NoEffectiveConfig ==
    [present |-> FALSE, enabled |-> FALSE, strategies |-> AllStrategies(FALSE, FALSE, FALSE, FALSE)]

\* the chat.params handler; the toast is its last step and its errors are ignored
ChatParams(providerID) ==
    /\ Len(paramsCalls) < MaxParamsCalls
    /\ IF provider.providerID # providerID
       THEN LET effectiveConfig == getEffectiveProviderConfig(provConfig, providerID)
                toast == ~effectiveConfig.enabled /\ provider.lastNotifiedProvider # providerID
            IN  /\ provider' = [providerID |-> providerID, effectiveConfig |-> effectiveConfig,
                                lastNotifiedProvider |->
                                    IF toast THEN providerID ELSE provider.lastNotifiedProvider]
                /\ paramsCalls' = Append(paramsCalls, [providerID |-> providerID, toast |-> toast])
       ELSE /\ UNCHANGED provider
            /\ paramsCalls' = Append(paramsCalls, [providerID |-> providerID, toast |-> FALSE])
    /\ provLast' = [kind |-> "params", calls |-> <<>>]
    /\ UNCHANGED provConfig
    /\ UNCHANGED <<corevars, svars, ivars, lvars, uvars, gvars>>

\* the message transform of lib/hooks.ts in a session that is no sub-agent
ProviderTransform ==
    /\ provLast' = [kind |-> "transform",
                    calls |-> TransformCalls([version |-> "hooks",
                                              strategies |-> provConfig.strategies,
                                              effectiveConfig |-> provider.effectiveConfig],
                                             FALSE)]
    /\ provLast' # provLast
    /\ UNCHANGED <<provConfig, provider, paramsCalls>>
    /\ UNCHANGED <<corevars, svars, ivars, lvars, uvars, gvars>>

\* the calls of the event handler of lib/hooks.ts on session.status idle,
\* state.sessionId set
IdleCalls(config, effectiveConfig, sub, lastToolPrune) ==
    IF sub THEN <<>>
    ELSE IF effectiveConfig.present /\ ~effectiveConfig.enabled THEN <<>>
    ELSE IF effectiveConfig.present /\ ~effectiveConfig.strategies.onIdle THEN <<>>
    ELSE IF ~config.strategies.onIdle THEN <<>>
    ELSE IF lastToolPrune THEN <<>>
    ELSE <<"runOnIdle">>

IdleEvent(sub, lastToolPrune) ==
    /\ provLast' = [kind |-> IF sub \/ lastToolPrune THEN "idle-skipped" ELSE "idle",
                    calls |-> IdleCalls(provConfig, provider.effectiveConfig, sub, lastToolPrune)]
    /\ provLast' # provLast
    /\ UNCHANGED <<provConfig, provider, paramsCalls>>
    /\ UNCHANGED <<corevars, svars, ivars, lvars, uvars, gvars>>

ProviderInput(config) ==
    /\ provConfig = config
    /\ provider = [providerID |-> "", effectiveConfig |-> NoEffectiveConfig,
                   lastNotifiedProvider |-> ""]
    /\ paramsCalls = <<>>
    /\ provLast = [kind |-> "none", calls |-> <<>>]

ProviderAtRest ==
    ProviderInput([strategies |-> AllStrategies(TRUE, TRUE, TRUE, TRUE),
                   overrides |-> [p \in ProviderIDs |->
                       ProviderOverride(FALSE, "unset",
                                        AllStrategies("unset", "unset", "unset", "unset"))]])

-----------------------------------------------------------------------------
(* Tool registration: the tool map and the config hook of the plugin        *)
(* (index.ts).                                                              *)

MaxConfigCalls == 2   \* calls of the config hook

\* config.tools.<name>.enabled
ToolsConfigs == [pinningMode : BOOLEAN, discard : BOOLEAN, extract : BOOLEAN, pin : BOOLEAN]

PrimaryToolsChoices == {<<>>, <<"bash">>, <<"bash", "pin">>}

\* the keys of the object the plugin returns under `tool`
toolMap(config) ==
    (IF ~config.pinningMode /\ config.discard THEN {"discard"} ELSE {})
    \cup (IF config.extract THEN {"extract"} ELSE {})
    \cup (IF config.pin THEN {"pin"} ELSE {})

\* toolsToAdd of the config hook
toolsToAdd(config) ==
    (IF config.pinningMode
     THEN (IF config.pin THEN <<"pin">> ELSE <<>>)
     ELSE (IF config.discard THEN <<"discard">> ELSE <<>>))
    \o (IF config.extract THEN <<"extract">> ELSE <<>>)

\* the plugin function builds its hooks and its tool map
Plugin ==
    /\ regTools = {"none"}
    /\ regTools' = toolMap(regConfig)
    /\ UNCHANGED <<regConfig, primaryTools, regCalls>>
    /\ UNCHANGED <<corevars, svars, ivars, lvars, uvars, nvars>>

\* the config hook of the plugin
ConfigHook ==
    /\ regTools # {"none"}
    /\ regCalls < MaxConfigCalls
    /\ regCalls' = regCalls + 1
    /\ primaryTools' = primaryTools \o toolsToAdd(regConfig)
    /\ UNCHANGED <<regConfig, regTools>>
    /\ UNCHANGED <<corevars, svars, ivars, lvars, uvars, nvars>>

RegisterInput(config, existingPrimaryTools) ==
    /\ regConfig = config
    /\ regTools = {"none"}
    /\ primaryTools = existingPrimaryTools
    /\ regCalls = 0

RegisterAtRest ==
    RegisterInput([pinningMode |-> FALSE, discard |-> TRUE, extract |-> TRUE, pin |-> FALSE],
                  <<>>)

-----------------------------------------------------------------------------
(* Specifications.  Each one exercises one part of the plugin and leaves    *)
(* the state of the others as it is after construction.                     *)

HooksAtRest ==
    /\ SystemAtRest
    /\ InjectAtRest
    /\ LimitAtRest
    /\ ConfirmAtRest
    /\ ProviderAtRest
    /\ RegisterAtRest

CompactionAtRest ==
    /\ compactionInProgress = createState.compactionInProgress
    /\ lastCompactionTime = createState.lastCompactionTime
    /\ now = StartTime
    /\ runs = <<>>
    /\ storage = [s \in Sessions |-> <<>>]
    /\ cfg = [truncationEnabled |-> TRUE, protectedMessages |-> 1, ext1M |-> FALSE]
    /\ dispatcherErrors = 0
    /\ lastAct = "other"

PruneInput(messages, toolIds) ==
    /\ pmsgs = messages
    /\ pmsgs0 = messages
    /\ pruneToolIds = toolIds
    /\ pcount = 0
    /\ pfirst = messages

BedrockInput(data, st) ==
    /\ bdata = data
    /\ bdata0 = data
    /\ bstate = st
    /\ bphase = "input"
    /\ bcount = 0
    /\ bid = ""
    /\ bfirst = data
    /\ breplaced = FALSE

\* a session with one completed tool call marked for pruning
PruneSample ==
    PruneInput(<<WithParts("user", <<TextPart("hello")>>),
                 WithParts("assistant", <<ToolPart("c1", "completed", "out", "")>>)>>,
               {"c1"})

\* a Bedrock request with one tool call whose id is marked as pruned
BedrockSample ==
    BedrockInput(<<BMsg("assistant", <<ToolUse("T1", "read")>>),
                   BMsg("user", <<ToolResult("T1", <<"out">>)>>)>>,
                 [toolParameters |-> <<>>, prunedIds |-> {"T1"}, protectedTools |-> {},
                  onTool |-> FALSE, modified |-> FALSE])

TransformAtRest ==
    /\ tinv = <<>>
    /\ isSubAgent = FALSE
    /\ tconf = [version |-> "hooks", strategies |-> Strategies(TRUE, TRUE, TRUE),
                effectiveConfig |-> [present |-> FALSE, enabled |-> FALSE,
                                     strategies |-> Strategies(FALSE, FALSE, FALSE)]]

InitCompaction ==
    /\ HooksAtRest
    /\ compactionInProgress = createState.compactionInProgress
    /\ lastCompactionTime = createState.lastCompactionTime
    /\ now = StartTime
    /\ runs = <<>>
    /\ storage \in {[s \in Sessions |-> layout] : layout \in StorageLayouts}
    /\ cfg \in [truncationEnabled : BOOLEAN, protectedMessages : {1}, ext1M : {FALSE}]
    /\ dispatcherErrors = 0
    /\ lastAct = "other"
    /\ PruneSample
    /\ BedrockSample
    /\ TransformAtRest
    /\ AutoPruneAtRest
    /\ CacheAtRest
    /\ TruncationAtRest

NextCompaction ==
    \/ \E info \in EventInfos \cup {NoInfo} : MessageUpdated(info)
    \/ \E id \in Sessions \cup {""} : SessionDeleted(id)
    \/ \E i \in 1..MaxRuns : AfterStartToast(i)
    \/ \E i \in 1..MaxRuns : AfterSkipToast(i)
    \/ \E i \in 1..MaxRuns : AfterFallbackToast(i)
    \/ \E i \in 1..MaxRuns : SummarizeResolves(i)
    \/ \E i \in 1..MaxRuns : SummarizeRejects(i)
    \/ \E i \in 1..MaxRuns : AfterDoneToast(i)
    \/ Tick

SpecCompaction == InitCompaction /\ [][NextCompaction]_vars

\* the rewrite of tool outputs: prune on a message list, handleFormat and
\* replaceToolOutput on a Bedrock request body
InitRewrite ==
    /\ HooksAtRest
    /\ CompactionAtRest
    /\ TransformAtRest
    /\ AutoPruneAtRest
    /\ CacheAtRest
    /\ TruncationAtRest
    /\ \/ /\ \E messages \in MessageLists, toolIds \in SUBSET CallIDs :
                PruneInput(messages, toolIds)
          /\ BedrockSample
       \/ /\ PruneSample
          /\ \E data \in BedrockBodies, st \in BedrockStates : BedrockInput(data, st)

NextRewrite ==
    \/ Prune
    \/ HandleFormat
    \/ \E toolId \in {"T1", "t2"} : ReplaceToolOutput(toolId)

SpecRewrite == InitRewrite /\ [][NextRewrite]_vars

\* the message transform hook
InitTransform ==
    /\ HooksAtRest
    /\ CompactionAtRest
    /\ PruneSample
    /\ BedrockSample
    /\ tinv = <<>>
    /\ isSubAgent = FALSE
    /\ tconf \in TransformConfigs
    /\ AutoPruneAtRest
    /\ CacheAtRest
    /\ TruncationAtRest

NextTransform ==
    \/ TransformStart
    \/ \E i \in 1..MaxInvocations, sub \in BOOLEAN, marked \in {{}, {"c2"}} :
          CheckSessionResolves(i, sub, marked)

SpecTransform == InitTransform /\ [][NextTransform]_vars

\* the auto-prune strategy, the pin tool and the prunable-tools list
InitAutoPrune ==
    /\ HooksAtRest
    /\ CompactionAtRest
    /\ PruneSample
    /\ BedrockSample
    /\ TransformAtRest
    /\ AutoPruneInput
    /\ CacheAtRest
    /\ TruncationAtRest

NextAutoPrune ==
    \/ AutoPrune
    \/ \E i \in 1..MaxAutoPrunes : AutoPruneNotified(i)
    \/ \E i \in 1..MaxAutoPrunes : AutoPruneNotifyRejects(i)
    \/ \E toolCallId \in {"k1", "k2", "k3"}, durationTurns \in PinDurations :
          Pin(toolCallId, durationTurns)
    \/ NextTurn
    \/ BuildList

SpecAutoPrune == InitAutoPrune /\ [][NextAutoPrune]_vars

\* the auto-prune schedule in a session whose history is truncated from outside
NextResync ==
    \/ AutoPrune
    \/ \E i \in 1..MaxAutoPrunes : AutoPruneNotified(i)
    \/ NextTurn
    \/ \E turns \in 0..MaxTurn : Resync(turns)
    \/ BuildList

SpecResync == InitAutoPrune /\ [][NextResync]_vars

\* the tool parameter cache
InitCache ==
    /\ HooksAtRest
    /\ CompactionAtRest
    /\ PruneSample
    /\ BedrockSample
    /\ TransformAtRest
    /\ AutoPruneAtRest
    /\ \E n \in {0, MAX_TOOL_PARAMETERS_CACHE_SIZE - 1, MAX_TOOL_PARAMETERS_CACHE_SIZE} :
          \E version \in {"part_007", "part_004"} : CacheInput(CacheFilled(n), version)
    /\ TruncationAtRest

NextCache ==
    \/ \E messages \in SeqsUpTo(ChatMessageChoices, MaxBatch) : CacheFromMessages(messages)
    \/ \E input \in SeqsUpTo(InputItemChoices, MaxBatch) : CacheFromInput(input)

SpecCache == InitCache /\ [][NextCache]_vars

\* truncation of stored tool outputs
InitTruncation ==
    /\ HooksAtRest
    /\ CompactionAtRest
    /\ PruneSample
    /\ BedrockSample
    /\ TransformAtRest
    /\ AutoPruneAtRest
    /\ CacheAtRest
    /\ \E msgs \in StoredSessions, args \in TruncationArgs : TruncationInput(msgs, args)

NextTruncation == \E currentTokens \in CurrentTokenChoices : Truncate(currentTokens)

SpecTruncation == InitTruncation /\ [][NextTruncation]_vars

\* the system prompt hook
InitSystem ==
    /\ CompactionAtRest
    /\ PruneSample
    /\ BedrockSample
    /\ TransformAtRest
    /\ AutoPruneAtRest
    /\ CacheAtRest
    /\ TruncationAtRest
    /\ \E system \in SeqsUpTo(SystemEntryChoices, MaxSystem), config \in ToolFlags :
          SystemInput(system, config)
    /\ InjectAtRest
    /\ LimitAtRest
    /\ ConfirmAtRest
    /\ ProviderAtRest
    /\ RegisterAtRest

NextSystem ==
    \/ SystemTransform
    \/ \E system \in SeqsUpTo(SystemEntryChoices, MaxSystem) : SystemRequest(system)

SpecSystem == InitSystem /\ [][NextSystem]_vars

\* insertPruneToolContext over an empty cache and over the sessions of the
\* auto-prune model
InitInject ==
    /\ CompactionAtRest
    /\ PruneSample
    /\ BedrockSample
    /\ TransformAtRest
    /\ \/ AutoPruneAtRest
       \/ AutoPruneInput /\ apConfig.pruneFrequency = 1
    /\ CacheAtRest
    /\ TruncationAtRest
    /\ SystemAtRest
    /\ \E messages \in SeqsUpTo(InjMessageChoices, MaxInjMessages), config \in InjectFlags,
          lastToolPrune \in BOOLEAN : InjectInput(messages, config, lastToolPrune)
    /\ LimitAtRest
    /\ ConfirmAtRest
    /\ ProviderAtRest
    /\ RegisterAtRest

NextInject ==
    \/ InsertPruneToolContext
    \/ \E wasPrune \in BOOLEAN : ToolRan(wasPrune)
    \/ IdleEvent(FALSE, injLastToolPrune)

SpecInject == InitInject /\ [][NextInject]_vars

\* inferContextLimit
InitLimit ==
    /\ CompactionAtRest
    /\ PruneSample
    /\ BedrockSample
    /\ TransformAtRest
    /\ AutoPruneAtRest
    /\ CacheAtRest
    /\ TruncationAtRest
    /\ SystemAtRest
    /\ InjectAtRest
    /\ \E ext1M \in BOOLEAN : LimitInput(ext1M)
    /\ ConfirmAtRest
    /\ ProviderAtRest
    /\ RegisterAtRest

NextLimit == \E modelID \in ModelIDs : InferContextLimit(modelID)

SpecLimit == InitLimit /\ [][NextLimit]_vars

\* the prune confirmation
InitConfirm ==
    /\ CompactionAtRest
    /\ PruneSample
    /\ BedrockSample
    /\ TransformAtRest
    /\ AutoPruneAtRest
    /\ CacheAtRest
    /\ TruncationAtRest
    /\ SystemAtRest
    /\ InjectAtRest
    /\ LimitAtRest
    /\ ConfirmAtRest
    /\ ProviderAtRest
    /\ RegisterAtRest

NextConfirm ==
    \/ \E toolIds \in PruneIdChoices : RequestPruneConfirmation(toolIds)
    \/ \E r \in 1..MaxRequests : PromptResolves(r)
    \/ \E r \in 1..MaxRequests : PromptRejects(r)
    \/ \E event \in UiEvents, items \in SUBSET {"a", "b"} : UiEvent(event, items)

SpecConfirm == InitConfirm /\ [][NextConfirm]_vars

\* provider overrides
InitProvider ==
    /\ CompactionAtRest
    /\ PruneSample
    /\ BedrockSample
    /\ TransformAtRest
    /\ AutoPruneAtRest
    /\ CacheAtRest
    /\ TruncationAtRest
    /\ SystemAtRest
    /\ InjectAtRest
    /\ LimitAtRest
    /\ ConfirmAtRest
    /\ \E config \in ProviderConfigs : ProviderInput(config)
    /\ RegisterAtRest

NextProvider ==
    \/ \E providerID \in ProviderIDs : ChatParams(providerID)
    \/ ProviderTransform
    \/ \E sub \in BOOLEAN, lastToolPrune \in BOOLEAN : IdleEvent(sub, lastToolPrune)

SpecProvider == InitProvider /\ [][NextProvider]_vars

\* tool registration
InitRegister ==
    /\ CompactionAtRest
    /\ PruneSample
    /\ BedrockSample
    /\ TransformAtRest
    /\ AutoPruneAtRest
    /\ CacheAtRest
    /\ TruncationAtRest
    /\ SystemAtRest
    /\ InjectAtRest
    /\ LimitAtRest
    /\ ConfirmAtRest
    /\ ProviderAtRest
    /\ \E config \in ToolsConfigs, existingPrimaryTools \in PrimaryToolsChoices :
          RegisterInput(config, existingPrimaryTools)

NextRegister ==
    \/ Plugin
    \/ ConfigHook

SpecRegister == InitRegister /\ [][NextRegister]_vars

-----------------------------------------------------------------------------
(* Properties of the rewrite and of the transform hook                      *)

\* block b of message i of the request body differs from what was handed in
Rewritten(i, b) == bdata[i].content[b] # bdata0[i].content[b]

\* C1: after handleFormat on a Bedrock message list, a toolUse block of an
\* assistant message and the toolResult block of a user message with the same
\* toolUseId are either both rewritten or both left as they were.
C1_PairedRewrite ==
    bphase = "handled" =>
        \A i \in DOMAIN bdata0, j \in DOMAIN bdata0 :
            \A a \in DOMAIN bdata0[i].content, b \in DOMAIN bdata0[j].content :
                ( /\ bdata0[i].role = "assistant"
                  /\ bdata0[i].content[a].kind = "toolUse"
                  /\ bdata0[j].role = "user"
                  /\ bdata0[j].content[b].kind = "toolResult"
                  /\ bdata0[i].content[a].toolUseId = bdata0[j].content[b].toolUseId )
                => (Rewritten(i, a) <=> Rewritten(j, b))

\* C2: a second run of pruneToolOutputs leaves the message list as the first
\* run left it, and a second replaceToolOutput with the same id and
\* placeholder leaves the Bedrock data as the first call left it.
C2_Idempotent ==
    /\ pcount >= 2 => pmsgs = pfirst
    /\ bcount >= 2 => bdata = bfirst

\* both rewrites were applied twice, and the first application of each
\* changed its input
C2_Witness ==
    /\ pcount = 2 /\ pfirst # pmsgs0
    /\ bcount = 2 /\ bfirst # bdata0

\* the condition under which pruneToolOutputs may touch a part
C3_Prunable(part) ==
    part.type = "tool" /\ part.callID \in pruneToolIds /\ part.status = "completed"

\* C3: prune keeps the number and order of messages and parts; a part that
\* changed was a completed tool part whose callID is in the prune set, and
\* all that changed in it is its output, now the placeholder; every other
\* part is as it was.
C3_Frame ==
    pcount >= 1 =>
        /\ Len(pmsgs) = Len(pmsgs0)
        /\ \A m \in DOMAIN pmsgs0 :
              /\ pmsgs[m].info = pmsgs0[m].info
              /\ Len(pmsgs[m].parts) = Len(pmsgs0[m].parts)
              /\ \A p \in DOMAIN pmsgs0[m].parts :
                    LET old == pmsgs0[m].parts[p]
                        new == pmsgs[m].parts[p]
                    IN  /\ ~C3_Prunable(old) => new = old
                        /\ new # old =>
                              new = [old EXCEPT !.output = PRUNED_TOOL_OUTPUT_REPLACEMENT]

\* prune replaced an output while a completed tool part outside the prune set
\* kept its output
C3_Witness ==
    /\ pcount >= 1
    /\ pmsgs # pmsgs0
    /\ \E m \in DOMAIN pmsgs : \E p \in DOMAIN pmsgs[m].parts :
          /\ pmsgs[m].parts[p].type = "tool"
          /\ pmsgs[m].parts[p].status = "completed"
          /\ pmsgs[m].parts[p].callID \notin pruneToolIds
          /\ pmsgs[m].parts[p].output = "out"

\* the stage of the pipeline a call belongs to; 0 for calls outside the four
Stage(call) ==
    CASE call = "syncToolCache" -> 1
      [] call \in StrategyCalls -> 2
      [] call = "prune" -> 3
      [] call = "compaction" -> 4
      [] OTHER -> 0

\* C10: an invocation of the message transform that reaches the rewrite made
\* its calls in the order state sync, strategies, rewrite, compaction: the
\* stages never go backwards, every strategy call comes after the sync of
\* the same invocation, and the compaction step follows the rewrite.
C10_TransformOrder ==
    \A i \in DOMAIN tinv :
        LET log == tinv[i].log
        IN  (tinv[i].pc = "done" /\ "prune" \in Range(log)) =>
               /\ \A k \in DOMAIN log, l \in DOMAIN log :
                     (k < l /\ Stage(log[k]) > 0 /\ Stage(log[l]) > 0)
                     => Stage(log[k]) <= Stage(log[l])
               /\ \A k \in DOMAIN log :
                     log[k] \in StrategyCalls
                     => \E j \in DOMAIN log : j < k /\ log[j] = "syncToolCache"
               /\ \E k \in DOMAIN log, j \in DOMAIN log :
                     j < k /\ log[j] = "prune" /\ log[k] = "compaction"

-----------------------------------------------------------------------------
(* Properties of the auto-prune strategy and of the prunable-tools list     *)

\* the cached invocation with the given id
EntryOf(toolCallId) == CHOOSE e \in Range(apParams) : e.id = toolCallId

\* the ids autoPrune has added to state.prune.toolIds
AutoMarked == UNION {Range(apRuns[i].marked) : i \in DOMAIN apRuns}

\* C11: no id that autoPrune added to state.prune.toolIds belongs to an
\* invocation whose tool name is in config.tools.settings.protectedTools.
C11_ProtectedToolsNeverMarked ==
    \A toolCallId \in AutoMarked : EntryOf(toolCallId).tool \notin apConfig.protectedTools

\* autoPrune marked something while an unpinned, unpruned invocation of a
\* protected tool was in the cache and in the live messages
C11_Witness ==
    /\ AutoMarked # {}
    /\ \E e \in Range(apParams) :
          /\ e.tool \in apConfig.protectedTools
          /\ e.id \in Range(apToolIdList)
          /\ e.id \notin DOMAIN pins
          /\ e.id \notin Range(apPruneIds)

\* C12: no id that autoPrune added to state.prune.toolIds belongs to an
\* invocation whose file path matches config.protectedFilePatterns.
C12_ProtectedPathsNeverMarked ==
    \A toolCallId \in AutoMarked :
        ~isProtectedFilePath(getFilePathFromParameters(EntryOf(toolCallId)),
                             apConfig.protectedFilePatterns)

\* C13: every line of a list built by buildPrunableToolsList is for a cached
\* invocation that is not in state.prune.toolIds, whose tool is not
\* protected, whose file path matches no protected pattern and whose id is
\* in the tool id list of the current messages; so an invocation already
\* marked pruned is on no list built afterwards.
C13_ListedOnlyIfPrunable ==
    [][apAct' = "buildList" =>
         \A l \in DOMAIN prunableList' :
            LET toolCallId == prunableList'[l].toolCallId
            IN  /\ \E e \in Range(apParams) : e.id = toolCallId
                /\ toolCallId \notin Range(apPruneIds)
                /\ EntryOf(toolCallId).tool \notin apConfig.protectedTools
                /\ ~isProtectedFilePath(getFilePathFromParameters(EntryOf(toolCallId)),
                                        apConfig.protectedFilePatterns)
                /\ toolCallId \in Range(apToolIdList)
                /\ prunableList'[l].numericId = indexOf(apToolIdList, toolCallId)]_vars

\* a list with a line was built after an invocation of the live messages had
\* been marked pruned
C13_Witness ==
    /\ apAct = "buildList"
    /\ Len(prunableList) > 0
    /\ \E toolCallId \in Range(apPruneIds) : toolCallId \in Range(apToolIdList)

\* C14: autoPrune adds to state.prune.toolIds no id that holds a pin with
\* expiresAtTurn > currentTurn when it runs; an id with a pin is marked only
\* by a run at a turn >= the pin's expiresAtTurn.
C14_PinnedExempt ==
    [][(apAct' = "autoPrune" /\ Len(apRuns') > Len(apRuns)) =>
         \A toolCallId \in Range(apRuns'[Len(apRuns')].marked) :
            toolCallId \in DOMAIN pins => pins[toolCallId].expiresAtTurn <= currentTurn]_vars

\* autoPrune has just marked an invocation and passed over a pinned one that
\* it would otherwise have marked
C14_Witness ==
    /\ apAct = "autoPrune"
    /\ apRuns[Len(apRuns)].marked # <<>>
    /\ \E e \in Range(apParams) :
          /\ e.id \in DOMAIN pins
          /\ pins[e.id].expiresAtTurn > currentTurn
          /\ e.id \in Range(apToolIdList)
          /\ e.tool \notin apConfig.protectedTools
          /\ e.id \notin Range(apPruneIds)

\* C15: in pinning mode, when the sync of a transform (the autoPrune call)
\* has returned, state.pins holds no entry with expiresAtTurn <= currentTurn,
\* and no line of a prunable list shows a pin with zero or negative turns
\* remaining.
C15_ExpiredPinsSwept ==
    apConfig.enabled =>
        /\ apAct = "autoPrune" =>
              \A toolCallId \in DOMAIN pins : pins[toolCallId].expiresAtTurn > currentTurn
        /\ \A l \in DOMAIN prunableList :
              prunableList[l].pinned => prunableList[l].turnsRemaining > 0

-----------------------------------------------------------------------------
(* Properties of the truncation of stored tool outputs                      *)

\* the part files of the session before the last call
StoredPositions ==
    UNION {{<<m, p>> : p \in DOMAIN truncLast.before[m].parts} : m \in DOMAIN truncLast.before}

BeforePart(pos) == truncLast.before[pos[1]].parts[pos[2]]

\* the last call truncated the part
NewlyTruncated(pos) ==
    ~BeforePart(pos).truncated /\ truncStore[pos[1]].parts[pos[2]].truncated

\* S is a choice of the protectedMessageCount most recent messages by mtime
MostRecent(S) ==
    /\ Cardinality(S) = Min(truncArgs.protectedMessageCount, Len(truncLast.before))
    /\ \A m \in S, o \in (DOMAIN truncLast.before) \ S :
          truncLast.before[m].mtime >= truncLast.before[o].mtime

RECURSIVE SizeSum(_)
SizeSum(positions) ==
    IF positions = {} THEN 0
    ELSE LET pos == CHOOSE x \in positions : TRUE
         IN  BeforePart(pos).outputSize + SizeSum(positions \ {pos})

\* (currentTokens - floor(maxTokens * targetRatio)) * charsPerToken of the last call
CharsToReduce ==
    (truncLast.currentTokens - (truncArgs.maxTokens * truncArgs.targetRatioPct) \div 100)
    * truncArgs.charsPerToken

\* C16: truncateUntilTargetTokens truncates nothing when currentTokens is at
\* or under the target; otherwise the removed total it reports is the sum of
\* the sizes it truncated, that total without the smallest (last) truncated
\* size is below charsToReduce, and, when every part can be written, every
\* eligible output left untruncated is no larger than any truncated one.
C16_LargestFirstUntilTarget ==
    truncCalls > 0 =>
        LET truncated == {pos \in StoredPositions : NewlyTruncated(pos)}
        IN  /\ CharsToReduce <= 0 => (truncated = {} /\ truncStore = truncLast.before)
            /\ truncLast.result.truncatedCount = Cardinality(truncated)
            /\ truncLast.result.totalBytesRemoved = SizeSum(truncated)
            /\ \A pos \in truncated :
                  (\A other \in truncated : BeforePart(pos).outputSize <= BeforePart(other).outputSize)
                  => SizeSum(truncated) - BeforePart(pos).outputSize < CharsToReduce
            /\ (\A pos \in StoredPositions : BeforePart(pos).writable) =>
                  \E S \in SUBSET (DOMAIN truncLast.before) :
                      /\ MostRecent(S)
                      /\ \A x \in truncated, y \in StoredPositions \ truncated :
                            ( /\ y[1] \notin S
                              /\ BeforePart(y).outputSize > 0
                              /\ ~BeforePart(y).truncated )
                            => BeforePart(y).outputSize <= BeforePart(x).outputSize

\* a call truncated two outputs, reached its target and left a smaller
\* eligible output alone
C16_Witness ==
    /\ truncCalls > 0
    /\ truncArgs.protectedMessageCount = 0
    /\ \A pos \in StoredPositions : BeforePart(pos).writable
    /\ truncLast.result.truncatedCount = 2
    /\ truncLast.result.sufficient
    /\ \E y \in StoredPositions :
          /\ ~NewlyTruncated(y)
          /\ ~BeforePart(y).truncated
          /\ BeforePart(y).outputSize > 0

\* C17: there is a choice of the protectedMessageCount most recent messages
\* (by mtime) none of whose tool outputs the call truncated.
C17_RecentMessagesProtected ==
    truncCalls > 0 =>
        \E S \in SUBSET (DOMAIN truncLast.before) :
            /\ MostRecent(S)
            /\ \A pos \in StoredPositions : pos[1] \in S => ~NewlyTruncated(pos)

\* a call that fell short of its target truncated an older output and left
\* the output of the single newest message alone
C17_Witness ==
    /\ truncCalls > 0
    /\ truncArgs.protectedMessageCount > 0
    /\ ~truncLast.result.sufficient
    /\ \E x \in StoredPositions : NewlyTruncated(x)
    /\ \E y \in StoredPositions :
          /\ \A o \in (DOMAIN truncLast.before) \ {y[1]} :
                truncLast.before[o].mtime < truncLast.before[y[1]].mtime
          /\ BeforePart(y).outputSize > 0
          /\ BeforePart(y).writable
          /\ ~BeforePart(y).truncated
          /\ ~NewlyTruncated(y)

-----------------------------------------------------------------------------
(* Properties of the tool parameter cache                                   *)

\* the keys of a cache in insertion order
KeysOf(cache) == [i \in DOMAIN cache |-> cache[i].id]

\* the ids of a list that are not yet known, each once, in order of appearance
RECURSIVE NewKeys(_, _)
NewKeys(ids, known) ==
    IF ids = <<>> THEN <<>>
    ELSE IF Head(ids) \in known THEN NewKeys(Tail(ids), known)
    ELSE <<Head(ids)>> \o NewKeys(Tail(ids), known \cup {Head(ids)})

\* the keys after the last call had nothing been removed
KeysUntrimmed ==
    KeysOf(klast.before) \o NewKeys(klast.cachedIds, Range(KeysOf(klast.before)))

\* C18: after a caching call of the copy with the bound the cache holds at
\* most MAX_TOOL_PARAMETERS_CACHE_SIZE entries, and its keys are the newest
\* ones in insertion order: what was removed is exactly the oldest excess.
C18_CacheBounded ==
    (kcalls > 0 /\ kversion = "part_007") =>
        /\ Len(kcache) <= MAX_TOOL_PARAMETERS_CACHE_SIZE
        /\ Len(kcache) = Min(MAX_TOOL_PARAMETERS_CACHE_SIZE, Len(KeysUntrimmed))
        /\ KeysOf(kcache) =
              SubSeq(KeysUntrimmed, Len(KeysUntrimmed) - Len(kcache) + 1, Len(KeysUntrimmed))

\* a call on a full cache added a new key and the oldest entry went
C18_Witness ==
    /\ kcalls > 0
    /\ kversion = "part_007"
    /\ Len(klast.before) = MAX_TOOL_PARAMETERS_CACHE_SIZE
    /\ Len(kcache) = MAX_TOOL_PARAMETERS_CACHE_SIZE
    /\ kcache[Len(kcache)].id = MAX_TOOL_PARAMETERS_CACHE_SIZE + 1
    /\ kcache[1].id = 2

\* C19: when a caching call returns, every tool call of its batch with
\* parseable arguments, and so every id of the returned cachedIds, has an
\* entry in the cache.
C19_LiveEntriesKept ==
    kcalls > 0 =>
        /\ \A t \in Range(klast.tried) :
              ParseArguments(t.arguments).ok => t.id \in Range(KeysOf(kcache))
        /\ Range(klast.cachedIds) \subseteq Range(KeysOf(kcache))

\* C20: a caching call never throws on arguments that fail to parse, counts
\* exactly the well-formed calls in cachedIds, creates no entry from a
\* malformed call (an entry under its id is the one from before unless a
\* well-formed call of the batch has the same id), and, where the bound
\* removed nothing, holds an entry for every well-formed call of the batch.
C20_MalformedSkipped ==
    kcalls > 0 =>
        LET tried == klast.tried
            ok(j) == ParseArguments(tried[j].arguments).ok
            entries(cache, id) == {cache[i] : i \in {x \in DOMAIN cache : cache[x].id = id}}
        IN  /\ ~klast.thrown
            /\ klast.cachedIds = [j \in 1..Len(klast.cachedIds) |-> klast.cachedIds[j]]
            /\ Len(klast.cachedIds) = Cardinality({j \in DOMAIN tried : ok(j)})
            /\ \A j \in DOMAIN tried :
                  /\ ok(j) => tried[j].id \in Range(klast.cachedIds)
                  /\ (ok(j) /\ (kversion = "part_004"
                                \/ Len(kcache) < MAX_TOOL_PARAMETERS_CACHE_SIZE))
                     => \E e \in entries(kcache, tried[j].id) :
                            \E l \in DOMAIN tried :
                                ok(l) /\ tried[l].id = e.id /\ tried[l].name = e.tool
                  /\ (~ok(j) /\ \A l \in DOMAIN tried : ok(l) => tried[l].id # tried[j].id)
                     => entries(kcache, tried[j].id) \subseteq entries(klast.before, tried[j].id)

\* a batch had a malformed call ahead of a well-formed one, and the
\* well-formed one got its entry
C20_Witness ==
    /\ kcalls > 0
    /\ \E i \in DOMAIN klast.tried, j \in DOMAIN klast.tried :
          /\ i < j
          /\ ~ParseArguments(klast.tried[i].arguments).ok
          /\ ParseArguments(klast.tried[j].arguments).ok
          /\ klast.tried[j].id \notin Range(KeysOf(klast.before))
          /\ klast.tried[j].id \in Range(KeysOf(kcache))
          /\ klast.tried[i].id \notin Range(KeysOf(kcache))

-----------------------------------------------------------------------------
(* Properties of the system prompt hook                                     *)

\* C21: a call of the system prompt hook never throws: it leaves
\* output.system as it was, or appends exactly one prompt whose name is a
\* key of PROMPTS.
C21_SystemHookNeverThrows ==
    sysCalls > 0 =>
        /\ sysLast.outcome # "thrown"
        /\ \/ sysOutput = sysLast.before
           \/ /\ sysLast.promptName \in PROMPTS
              /\ sysOutput = Append(sysLast.before, PromptEntry(sysLast.promptName))

-----------------------------------------------------------------------------
(* Properties of the Bedrock descriptor on its own                          *)

\* block b of message m is a toolResult of a user message with the id, compared in lower case
IsResultOf(data, m, b, toolId) ==
    /\ data[m].role = "user"
    /\ data[m].content[b].kind = "toolResult"
    /\ toLowerCase(data[m].content[b].toolUseId) = toLowerCase(toolId)

\* C22: a call replaceToolOutput(data, id, text) of the Bedrock descriptor
\* returns true exactly when a toolResult block of a user message has the id
\* (in lower case); it sets the content of those blocks to the one text and
\* leaves the messages, their roles, their blocks and every other block as
\* they were.
C22_ReplaceFrame ==
    [][(bphase' = "replaced" /\ bcount' = bcount + 1) =>
          /\ breplaced' = (\E m \in DOMAIN bdata : \E b \in DOMAIN bdata[m].content :
                              IsResultOf(bdata, m, b, bid'))
          /\ DOMAIN bdata' = DOMAIN bdata
          /\ \A m \in DOMAIN bdata :
                /\ bdata'[m].role = bdata[m].role
                /\ DOMAIN bdata'[m].content = DOMAIN bdata[m].content
                /\ \A b \in DOMAIN bdata[m].content :
                      bdata'[m].content[b] =
                         IF IsResultOf(bdata, m, b, bid')
                         THEN [bdata[m].content[b] EXCEPT !.content = <<PRUNED_CONTENT_MESSAGE>>]
                         ELSE bdata[m].content[b]]_vars

\* a call returned true and rewrote a result next to a cachePoint block,
\* with a result of another id in the body
C22_Witness ==
    /\ bphase = "replaced"
    /\ breplaced
    /\ bdata # bdata0
    /\ \E m \in DOMAIN bdata : \E b \in DOMAIN bdata[m].content :
          bdata[m].content[b].kind = "cachePoint"
    /\ \E m \in DOMAIN bdata : \E b \in DOMAIN bdata[m].content :
          /\ bdata[m].content[b].kind = "toolResult"
          /\ toLowerCase(bdata[m].content[b].toolUseId) # toLowerCase(bid)
          /\ bdata[m].content[b].content = <<"out">>

-----------------------------------------------------------------------------
(* Properties of the numeric ids of the prunable-tools list                 *)

\* the caches of the modelled sessions, and the one at hand in reverse insertion order
OtherCaches ==
    {session.params : session \in SessionChoices}
    \cup {[i \in DOMAIN apParams |-> apParams[Len(apParams) + 1 - i]]}

\* C23: the numeric id a list shows for a tool call id is the 0-based place
\* of the id in the tool id list of the live messages; a list built from the
\* same messages, pins and prunes over a cache with other contents or another
\* insertion order shows the same numeric id for the id.
C23_NumericIdStable ==
    apAct = "buildList" =>
        \A l \in DOMAIN prunableList :
            LET line == prunableList[l]
            IN  /\ line.numericId + 1 \in DOMAIN apToolIdList
                /\ apToolIdList[line.numericId + 1] = line.toolCallId
                /\ \A j \in 1..line.numericId : apToolIdList[j] # line.toolCallId
                /\ \A other \in OtherCaches :
                      LET lines == buildPrunableToolsList(other, pins, currentTurn,
                                       apPruneIds, apToolIdList, apConfig)
                      IN  \A k \in DOMAIN lines :
                             lines[k].toolCallId = line.toolCallId
                                => lines[k].numericId = line.numericId

\* a list whose lines, in the insertion order of the cache, carry numeric
\* ids in another order
C23_Witness ==
    /\ apAct = "buildList"
    /\ \E l1 \in DOMAIN prunableList, l2 \in DOMAIN prunableList :
          l1 < l2 /\ prunableList[l1].numericId > prunableList[l2].numericId

-----------------------------------------------------------------------------
(* Properties of the notification of autoPrune                              *)

\* C24: the notification of autoPrune is fire-and-forget: a run that added
\* ids to state.prune.toolIds has set lastAutoPruneTurn to its turn whether
\* the notification is still out, failed or arrived, and no run ends with
\* the failure of the notification.
C24_NotificationFireAndForget ==
    \A i \in DOMAIN apRuns :
        apRuns[i].marked # <<>> =>
            /\ lastAutoPruneTurn >= apRuns[i].turn
            /\ apRuns[i].pc # "rejected"

-----------------------------------------------------------------------------
(* Properties of insertPruneToolContext                                     *)

\* C25: a call of insertPruneToolContext leaves the messages it was handed
\* as they were and appends at most one message, at the end: none when no
\* pruning tool is enabled, when the list is empty and the last tool was no
\* prune, or when no message is a user message; otherwise an assistant
\* message with a tool part when the provider of the last user message is
\* github-copilot or github-copilot-enterprise, and a user message for every
\* other provider.
C25_OneSyntheticMessage ==
    [][injCalls' = injCalls + 1 =>
         LET before == injMessages
             after == injMessages'
             due == /\ injConfig.pin \/ injConfig.discard \/ injConfig.extract
                    /\ \/ injLastToolPrune
                       \/ \E e \in Range(apParams) :
                             Listed(e, apPruneIds, apToolIdList, apConfig)
                    /\ \E i \in DOMAIN before : before[i].role = "user"
             users == {i \in DOMAIN before : before[i].role = "user"}
             lastUser == CHOOSE i \in users : \A j \in users : j <= i
         IN  /\ Len(after) \in {Len(before), Len(before) + 1}
             /\ SubSeq(after, 1, Len(before)) = before
             /\ (Len(after) = Len(before)) = ~due
             /\ due =>
                   LET new == after[Len(after)]
                       copilot == before[lastUser].providerID
                                     \in {"github-copilot", "github-copilot-enterprise"}
                   IN  /\ copilot => new.role = "assistant" /\ new.made = "synthetic-assistant-tool"
                       /\ ~copilot => new.role = "user" /\ new.made = "synthetic-user"]_vars

\* a call appended the assistant message with a tool part behind a session
\* whose last user message came through github-copilot-enterprise
C25_Witness ==
    /\ injCalls > 0
    /\ Len(injMessages) = Len(injLast.before) + 1
    /\ injMessages[Len(injMessages)].made = "synthetic-assistant-tool"
    /\ \E i \in DOMAIN injLast.before :
          /\ injLast.before[i].providerID = "github-copilot-enterprise"
          /\ injLast.before[i].role = "user"

-----------------------------------------------------------------------------
(* Properties of inferContextLimit                                          *)

\* the entries of the table whose pattern matches the model id
Matching(modelID) ==
    {j \in DOMAIN MODEL_CONTEXT_PATTERNS : modelID \in MODEL_CONTEXT_PATTERNS[j].ids}

-----------------------------------------------------------------------------
(* Properties of the message transform in sub-agent sessions                *)

\* C27: an invocation of the message transform whose checkSession leaves
\* state.isSubAgent = true still syncs the tool cache, applies the pending
\* prunes and calls insertPruneToolContext; of the calls of the handler it
\* leaves out only deduplicate and supersedeWrites.
C27_SubAgentGetsContext ==
    [][\A i \in DOMAIN tinv :
          (tinv[i].pc = "checkSession" /\ tinv'[i].pc = "done" /\ isSubAgent')
          => tinv'[i].log = <<"checkSession", "syncToolCache", "prune",
                              "insertPruneToolContext">>]_vars

-----------------------------------------------------------------------------
(* Properties of the prune confirmation                                     *)

\* C28: every promise of requestPruneConfirmation gets resolved, exactly
\* once: a promise still pending after its confirmation UI was sent is the
\* one pendingPrune holds, so that the next confirm, cancel or auto-prune
\* event resolves it; no resolve function is called twice; a resolved
\* promise carries ids that were checked in its request; and pendingPrune
\* never holds a resolved promise.
C28_ConfirmationResolved ==
    /\ \A r \in DOMAIN uiReqs :
          /\ (uiReqs[r].promise = "pending" /\ uiReqs[r].prompt # "sending")
                => pendingPrune = r
          /\ uiReqs[r].resolveCalls <= 1
          /\ uiReqs[r].promise = "resolved" => uiReqs[r].value \subseteq uiReqs[r].ids
    /\ pendingPrune # 0 => uiReqs[pendingPrune].promise = "pending"

-----------------------------------------------------------------------------
(* Properties of the provider overrides                                     *)

\* DCP is switched off for the provider by its override
DisabledFor(providerID) ==
    /\ provConfig.overrides[providerID].present
    /\ provConfig.overrides[providerID].enabled = "off"

\* C29: a call of the chat.params handler shows the 'DCP Disabled' toast
\* exactly when its provider differs from the provider of the call before
\* (the first call always switches) and DCP is disabled for the provider.
C29_ToastPerSwitch ==
    \A k \in DOMAIN paramsCalls :
        paramsCalls[k].toast =
            (/\ k = 1 \/ paramsCalls[k - 1].providerID # paramsCalls[k].providerID
             /\ DisabledFor(paramsCalls[k].providerID))

\* whether strategy x is to run for the provider: its override, else the global setting
Effective(providerID, x) ==
    LET override == provConfig.overrides[providerID]
    IN  IF DisabledFor(providerID) THEN FALSE
        ELSE IF override.strategies[x] = "unset" THEN provConfig.strategies[x]
        ELSE override.strategies[x] = "on"

\* C30: once the provider is known, the transform handler calls
\* deduplicate, supersedeWrites and insertPruneToolContext, and the idle
\* handler calls runOnIdle, exactly when the effective config of the
\* provider has the strategy on: the override's value when it has one, else
\* the global setting, and off when the override disables the provider.
C30_EffectiveConfigDecides ==
    provider.providerID # "" =>
        /\ provLast.kind = "transform" =>
              /\ ("deduplicate" \in Range(provLast.calls))
                    = Effective(provider.providerID, "deduplication")
              /\ ("supersedeWrites" \in Range(provLast.calls))
                    = Effective(provider.providerID, "supersedeWrites")
              /\ ("insertPruneToolContext" \in Range(provLast.calls))
                    = Effective(provider.providerID, "pruneTool")
        /\ provLast.kind = "idle" =>
              ("runOnIdle" \in Range(provLast.calls)) = Effective(provider.providerID, "onIdle")

-----------------------------------------------------------------------------
(* Properties of the early returns of the message transform                 *)

\* DCP is disabled for the current provider
ProviderDisabled == tconf.effectiveConfig.present /\ ~tconf.effectiveConfig.enabled

-----------------------------------------------------------------------------
(* Properties of the tool registration                                      *)

\* C32: the tool map of the plugin has the pin tool only when pinning mode
\* is enabled and the discard tool only when pinning mode is disabled, so it
\* never has both.
C32_PinXorDiscard ==
    regTools # {"none"} =>
        /\ "pin" \in regTools => regConfig.pinningMode
        /\ "discard" \in regTools => ~regConfig.pinningMode
        /\ ~({"pin", "discard"} \subseteq regTools)

-----------------------------------------------------------------------------
(* Properties of the protected tools in the request rewrite                 *)

\* the tool each call id of the session invoked, by lower-cased id
SessionCalls == [t1 |-> "Task", t2 |-> "read"]

\* the toolUse blocks of the body are calls of the session
CallsOfSession(data) ==
    \A i \in DOMAIN data : \A b \in DOMAIN data[i].content :
        data[i].content[b].kind = "toolUse"
        => data[i].content[b].name = SessionCalls[toLowerCase(data[i].content[b].toolUseId)]

\* the tool that produced the toolResult block is in config.protectedTools
ResultOfProtected(block) ==
    /\ block.kind = "toolResult"
    /\ toLowerCase(SessionCalls[toLowerCase(block.toolUseId)])
          \in {toLowerCase(t) : t \in bstate.protectedTools}

\* C33: handleFormat leaves every tool result of a protected tool as it
\* was, whether or not its id is in the pruned id set and whether or not
\* the call that produced it is in the body and so in the tool-parameter
\* cache.
C33_ProtectedNeverReplaced ==
    (bphase = "handled" /\ CallsOfSession(bdata0)) =>
        \A i \in DOMAIN bdata0 : \A b \in DOMAIN bdata0[i].content :
            ResultOfProtected(bdata0[i].content[b]) => ~Rewritten(i, b)

\* the same for the results whose call is in the cache at the rewrite
CachedProtectedKept ==
    (bphase = "handled" /\ CallsOfSession(bdata0)) =>
        \A i \in DOMAIN bdata0 : \A b \in DOMAIN bdata0[i].content :
            (/\ ResultOfProtected(bdata0[i].content[b])
             /\ toLowerCase(bdata0[i].content[b].toolUseId) \in DOMAIN bstate.toolParameters)
            => ~Rewritten(i, b)

-----------------------------------------------------------------------------
(* Properties of the cooldown after a prune tool                            *)

\* C34: while state.lastToolPrune is true, a call of insertPruneToolContext
\* appends nothing or a message whose content is the cooldown message alone
\* (no list of prunable ids, no nudge, no auto-prune warning), and the idle
\* event handler returns without calling runOnIdle.
C34_CooldownOnly ==
    [][/\ (injCalls' = injCalls + 1 /\ injLastToolPrune)
             => \/ injMessages' = injMessages
                \/ /\ Len(injMessages') = Len(injMessages) + 1
                   /\ injMessages'[Len(injMessages')].content = <<"cooldown">>
       /\ (provLast' # provLast /\ injLastToolPrune) => provLast'.calls = <<>>]_vars

\* after a prune tool ran, the cooldown message was injected behind a list
\* with a warning, and an idle event was skipped
C34_Witness ==
    /\ injLastToolPrune
    /\ Len(injMessages) >= 2
    /\ injMessages[Len(injMessages)].content = <<"cooldown">>
    /\ "auto-prune-warning" \in Range(injMessages[Len(injMessages) - 1].content)
    /\ provLast.kind = "idle-skipped"

-----------------------------------------------------------------------------
(* Properties of the per-session compaction state                           *)

\* the sessions whose cooldown timestamp or in-progress flag a step changes
Touched ==
    {s \in Sessions :
        \/ (s \in DOMAIN lastCompactionTime) # (s \in DOMAIN lastCompactionTime')
        \/ /\ s \in DOMAIN lastCompactionTime
           /\ s \in DOMAIN lastCompactionTime'
           /\ lastCompactionTime[s] # lastCompactionTime'[s]
        \/ (s \in compactionInProgress) # (s \in compactionInProgress')}

\* C35: compaction state is per session.  A step of the handler for session
\* S (a message.updated that triggers a run of S, a continuation of a run of
\* S, a session.deleted for S) changes the cooldown timestamp and the
\* in-progress flag of no session but S, and a session.deleted for S leaves
\* S without timestamp and without flag.
C35_PerSessionState ==
    [][/\ Cardinality(Touched) <= 1
       /\ \A i \in DOMAIN runs' :
             (i \notin DOMAIN runs \/ runs'[i] # runs[i])
             => /\ Touched \subseteq {runs'[i].info.sessionID}
                /\ (i \in DOMAIN runs /\ runs'[i].deletedAfter /\ ~runs[i].deletedAfter)
                      => /\ runs'[i].info.sessionID \notin DOMAIN lastCompactionTime'
                         /\ runs'[i].info.sessionID \notin compactionInProgress']_vars

\* session s1 was deleted while a run of session s2 is in progress: s1 has
\* no entry left, s2 has both
C35_Witness ==
    /\ \E i \in DOMAIN runs : runs[i].info.sessionID = "s1" /\ runs[i].deletedAfter
    /\ "s1" \notin DOMAIN lastCompactionTime
    /\ "s1" \notin compactionInProgress
    /\ "s2" \in DOMAIN lastCompactionTime
    /\ "s2" \in compactionInProgress

-----------------------------------------------------------------------------
(* Properties of the decision after the truncation phase                    *)

\* the truncation phase of run i is behind it
PastTruncation(i) == runs[i].pc # "toastStart" /\ runs[i].outcome # "invalid"

\* C36: a run whose truncation phase reported sufficient has
\* tokensSaved = floor(totalBytesRemoved / 4), a recomputed usage ratio under
\* the threshold, and ends as skipped without a call of summarize.
C36_SufficientMeansSkipped ==
    \A i \in RunIds :
        (PastTruncation(i) /\ runs[i].sufficient)
        => /\ runs[i].tokensSaved = runs[i].totalBytesRemoved \div CHARS_PER_TOKEN
           /\ UnderThreshold(CurrentTokensOf(i), LimitOf(i))
           /\ ~runs[i].summarizeCalled
           /\ runs[i].pc \in {"toastSkip", "done"}
           /\ runs[i].pc = "done" => runs[i].outcome = "skipped"

-----------------------------------------------------------------------------
(* Properties of the auto-prune schedule                                    *)

\* a call of autoPrune gets past its "not time yet" check exactly when
\* pinning mode is on and turnsUntilAutoPrune is 0
ProceedsWhenDue ==
    Len(apRuns') = Len(apRuns) + 1
    => (apRuns'[Len(apRuns')].proceeded
           = (/\ apConfig.enabled
              /\ turnsUntilAutoPrune(currentTurn, lastAutoPruneTurn, apConfig) = 0))

\* a list that is built carries the warning exactly when pinning mode is on
\* and 0 < pruneFrequency - (currentTurn - lastAutoPruneTurn) <= warningTurns
WarnsWhenNear ==
    (apAct' = "buildList" /\ Len(prunableList') > 0)
    => apWarning'
          = (/\ apConfig.enabled
             /\ 0 < apConfig.pruneFrequency - (currentTurn - lastAutoPruneTurn)
             /\ apConfig.pruneFrequency - (currentTurn - lastAutoPruneTurn)
                   <= apConfig.warningTurns)

\* with pinning mode disabled no call of autoPrune proceeds and no warning is shown
NothingWhenDisabled ==
    ~apConfig.enabled => (apWarned = {} /\ \A i \in DOMAIN apRuns : ~apRuns[i].proceeded)

\* C37 as stated: with pinning mode enabled autoPrune proceeds exactly when
\* turnsUntilAutoPrune = 0 and the warning is shown exactly when
\* 0 < turnsUntilAutoPrune <= warningTurns; no warning is shown in a turn
\* in which an auto-prune fires; with pinning mode disabled there is
\* neither a warning nor an auto-prune.
C37_WarningNeverOnFiringTurn ==
    /\ [][ProceedsWhenDue /\ WarnsWhenNear]_vars
    /\ [](NothingWhenDisabled
          /\ \A i \in DOMAIN apRuns : apRuns[i].proceeded => apRuns[i].turn \notin apWarned)

\* C37, amended: the two conditions are as stated and exclude each other in
\* every state, so no warning is shown while an auto-prune is due; in the
\* turn of an auto-prune that fired a warning is shown only after it, and
\* only under a configuration with warningTurns >= pruneFrequency; with
\* pinning mode disabled there is neither a warning nor an auto-prune.
C37_WarningNeverWhileDue ==
    /\ [][ProceedsWhenDue /\ WarnsWhenNear]_vars
    /\ [](/\ NothingWhenDisabled
          /\ ~(/\ shouldShowAutoPruneWarning(currentTurn, lastAutoPruneTurn, apConfig)
               /\ turnsUntilAutoPrune(currentTurn, lastAutoPruneTurn, apConfig) = 0)
          /\ \A i \in DOMAIN apRuns :
                (apRuns[i].proceeded /\ apRuns[i].turn \in apWarned)
                => apConfig.warningTurns >= apConfig.pruneFrequency)

\* an auto-prune fired in turn 1 and a list of the same turn carries the warning
C37_Witness ==
    /\ apConfig.enabled
    /\ \E i \in DOMAIN apRuns : apRuns[i].proceeded /\ apRuns[i].turn = 1 /\ apRuns[i].pc = "done"
    /\ currentTurn = 1
    /\ apWarned = {1}

\* C38: with pinning mode enabled lastAutoPruneTurn never exceeds
\* currentTurn and turnsUntilAutoPrune is in 0..pruneFrequency, also after
\* the turn counter was re-derived from a truncated message list.
C38_TurnsUntilInRange ==
    apConfig.enabled =>
        /\ lastAutoPruneTurn <= currentTurn
        /\ turnsUntilAutoPrune(currentTurn, lastAutoPruneTurn, apConfig)
              \in 0..apConfig.pruneFrequency

\* C39: state.prune.toolIds holds no tool call id twice: a run of
\* autoPrune adds an id only if the list does not have it, also when it
\* starts while an earlier run waits for its notification.
C39_NoDuplicatePruneIds ==
    /\ \A a \in DOMAIN apPruneIds, b \in DOMAIN apPruneIds :
          apPruneIds[a] = apPruneIds[b] => a = b
    /\ \A i \in DOMAIN apRuns, j \in DOMAIN apRuns :
          i # j => Range(apRuns[i].marked) \cap Range(apRuns[j].marked) = {}

\* a second run got past the "not time yet" check while the first, which
\* marked ids, still waits for its notification
C39_Witness ==
    /\ Len(apRuns) = 2
    /\ apRuns[1].pc = "notify"
    /\ apRuns[1].marked # <<>>
    /\ apRuns[2].proceeded
    /\ apRuns[2].turn = apRuns[1].turn

====
